---- MODULE Spec2Model ----
(***************************************************************************)
(* Model of the plagiarism detection service: the detection pipeline       *)
(* (src/core/detector.py), the explainer's result handling                 *)
(* (src/core/analyzer.py), the Elasticsearch store                         *)
(* (src/storage/elasticsearch.py), the text chunker (src/core/chunker.py), *)
(* the chunks of a PDF (src/core/pdf_processor.py), batch embedding        *)
(* (src/embedding/ollama_embed.py) and the temporary files of the PDF      *)
(* operations (src/storage/minio_client.py).                               *)
(*                                                                         *)
(* Scores are fixed-point numbers in thousandths: 1000 stands for 1.0.     *)
(* A percentage is the exact fraction num/den (in percent).                *)
(***************************************************************************)
EXTENDS Integers, Sequences, FiniteSets, TLC

----------------------------------------------------------------------------
(* Bounds of the model *)

MaxChunks == 2
MaxDocChunks == 3
MaxTopK == 3
MaxCap == 2
MaxMatches == 3
MaxOps == 3
MaxPdfCalls == 3
MaxTexts == 3
MaxBatchSize == 2
MaxChunkSize == 3
MaxWords == 5
MaxIters == 6
MaxSections == 2
MaxIndexCalls == 3
MaxUses == 3
MaxChars == 5
MaxLexWords == 3
MaxElements == 3
MaxUploads == 2
MantissaBits == 7
MaxWordCount == 2
MaxScoredChunks == 2

----------------------------------------------------------------------------
(* Settings (src/config/settings.py), scores in thousandths *)

similarity_critical == 950
similarity_high == 850
similarity_medium == 700
similarity_low == 500
min_score_threshold == 500

Severities == {"SAFE", "LOW", "MEDIUM", "HIGH", "CRITICAL"}

\* get_severity with strict comparisons
get_severity_strict(n, d) ==
    IF n * 1000 > similarity_critical * d THEN "CRITICAL"
    ELSE IF n * 1000 > similarity_high * d THEN "HIGH"
    ELSE IF n * 1000 > similarity_medium * d THEN "MEDIUM"
    ELSE IF n * 1000 > similarity_low * d THEN "LOW"
    ELSE "SAFE"

\* Settings.get_severity applied to the score n/d
get_severity(n, d) ==
    IF n * 1000 >= similarity_critical * d THEN "CRITICAL"
    ELSE IF n * 1000 >= similarity_high * d THEN "HIGH"
    ELSE IF n * 1000 >= similarity_medium * d THEN "MEDIUM"
    ELSE IF n * 1000 >= similarity_low * d THEN "LOW"
    ELSE "SAFE"

\* BaseAnalyzer._get_severity applied to the percentage p.num/p.den
analyzer_get_severity(p) ==
    IF p.num >= 95 * p.den THEN "CRITICAL"
    ELSE IF p.num >= 85 * p.den THEN "HIGH"
    ELSE IF p.num >= 70 * p.den THEN "MEDIUM"
    ELSE IF p.num >= 50 * p.den THEN "LOW"
    ELSE "SAFE"

----------------------------------------------------------------------------
(* Texts.  A text is known by a name; its word count, whether it carries a *)
(* citation, its cosine similarity to a stored text and its lexical        *)
(* similarity to a stored text are what the pipeline uses of it.           *)

Docs == {"d1", "d2"}

\* texts of the chunks an ingest stores
CorpusTexts == {"a", "a2", "b"}

\* texts of the chunks of a checked input
InputTexts == {"a", "a2", "ac", "bp", "u"}

\* TextChunk.word_count
WordCount(t) ==
    CASE t = "a" -> 3
      [] t = "a2" -> 3
      [] t = "ac" -> 5
      [] t = "b" -> 2
      [] t = "bp" -> 2
      [] OTHER -> 1

\* has_citation(text): only "ac" quotes its source
has_citation(t) == t = "ac"

\* engine score of a stored chunk with text m for the embedding of text q
Cosine(q, m) ==
    CASE q = m -> 1000
      [] q = "ac" /\ m = "a" -> 960
      [] q \in {"a", "a2", "ac"} /\ m \in {"a", "a2"} -> 900
      [] q = "bp" /\ m = "b" -> 900
      [] q = "bp" -> 600
      [] OTHER -> 400

\* calculate_asymmetric_lexical_similarity(input q, matched m)
LexicalScore(q, m) ==
    CASE q = m -> 1000
      [] q = "ac" /\ m = "a" -> 1000
      [] q \in {"a", "a2", "ac"} /\ m \in {"a", "a2"} -> 700
      [] q = "bp" /\ m = "b" -> 100
      [] q = "bp" /\ m = "a" -> 600
      [] q = "bp" /\ m = "a2" -> 400
      [] OTHER -> 0

Max(a, b) == IF a >= b THEN a ELSE b
Min(a, b) == IF a <= b THEN a ELSE b

\* the score of calculate_combined_similarity with every citation penalty
\* left out
combined_score_unpenalized(semantic_score, lexical_score, cited) ==
    Max(0, (semantic_score * 500 + lexical_score * 500) \div 1000)

\* calculate_combined_similarity, lines 165-171: the weighted sum with the
\* default weights 0.5 / 0.5, less the citation penalty, not below 0
combined_score(semantic_score, lexical_score, cited) ==
    LET citation_penalty == IF cited THEN 150 ELSE 0
        combined == (semantic_score * 500 + lexical_score * 500) \div 1000
    IN  Max(0, combined - citation_penalty)

\* calculate_combined_similarity with the default weights 0.5 / 0.5
calculate_combined_similarity(semantic_score, input_text, matched_text) ==
    combined_score(semantic_score, LexicalScore(input_text, matched_text),
                   has_citation(input_text))

----------------------------------------------------------------------------
(* The store: a documents index and a chunks index                         *)

NoDoc == -1

\* DocumentManager.upload_document / PdfProcessor._sections_to_chunks:
\* the id of the chunk at position i of document d, "{d}_chunk_{i}"
ChunkId(d, i) == <<d, i>>

\* PlagiarismMatch.matched_chunk_id left at its default ""
UnsetChunkId == <<"", 0>>

\* text of the chunk at position i of document d
DocText(d, i) ==
    IF d = "d1" THEN (IF i = 0 THEN "a" ELSE "a2") ELSE "b"

\* ElasticsearchClient.index_document: the body stored for one chunk
chunk_body(d, i) ==
    [chunk_id |-> ChunkId(d, i), document_id |-> d, position |-> i,
     text |-> DocText(d, i)]

\* the chunks index after storing body under its id (client.index)
PutChunk(index, body) ==
    {c \in index : c.chunk_id # body.chunk_id} \cup {body}

\* injective sequences of length k over the set S
Rankings(S, k) ==
    {s \in [1..k -> S] : \A i, j \in 1..k : i # j => s[i] # s[j]}

\* a hit of the kNN search for the embedding of text q
Hit(q, c) ==
    [document_id |-> c.document_id, chunk_id |-> c.chunk_id,
     matched_text |-> c.text, similarity_score |-> Cosine(q, c.text)]

\* client.search(knn=...): the top_k searchable chunks outside
\* exclude_doc_ids, best score first; chunks of equal score in any order
KnnSearch(searchable, q, top_k, exclude_doc_ids) ==
    LET eligible == {c \in searchable : c.document_id \notin exclude_doc_ids}
        k == Min(top_k, Cardinality(eligible))
        ranked == {s \in Rankings(eligible, k) :
                     /\ \A i \in 1..(k - 1) :
                           Cosine(q, s[i].text) >= Cosine(q, s[i + 1].text)
                     /\ \A c \in eligible :
                           (\A i \in 1..k : s[i] # c) =>
                               Cosine(q, c.text) <= Cosine(q, s[k].text)}
    IN  {[i \in 1..k |-> Hit(q, s[i])] : s \in ranked}

RECURSIVE limit_loop(_, _, _, _)
limit_loop(results, max_per_source, doc_counts, filtered_results) ==
    IF results = <<>> THEN filtered_results
    ELSE LET result == Head(results)
             doc_id == result.document_id
         IN  IF doc_counts[doc_id] < max_per_source
             THEN limit_loop(Tail(results), max_per_source,
                             [doc_counts EXCEPT ![doc_id] = @ + 1],
                             Append(filtered_results, result))
             ELSE limit_loop(Tail(results), max_per_source, doc_counts,
                             filtered_results)

\* a slip in the cap test: one result too many is kept per document
limit_results_per_source_off_by_one(results, max_per_source) ==
    limit_loop(results, max_per_source + 1, [d \in Docs |-> 0], <<>>)

\* ElasticsearchClient._limit_results_per_source
limit_results_per_source(results, max_per_source) ==
    limit_loop(results, max_per_source, [d \in Docs |-> 0], <<>>)

\* a slip: the per-source cap is not applied
vector_search_uncapped(engine_ok, hits, min_score, max_per_source) ==
    IF ~engine_ok THEN <<>>
    ELSE SelectSeq(hits, LAMBDA h : h.similarity_score >= min_score)

\* ElasticsearchClient.vector_search on the hits the engine returned;
\* a failed engine call is logged and answered with the empty list
vector_search(engine_ok, hits, min_score, max_per_source) ==
    IF ~engine_ok THEN <<>>
    ELSE limit_results_per_source(
             SelectSeq(hits, LAMBDA h : h.similarity_score >= min_score),
             max_per_source)

----------------------------------------------------------------------------
(* The detector (src/core/detector.py)                                     *)

NoneDoc == "none"

\* the loop of _analyze_chunk: every result gets the combined score
Rescore(chunk_text, search_results) ==
    [k \in 1..Len(search_results) |->
        [search_results[k] EXCEPT !.similarity_score =
            calculate_combined_similarity(search_results[k].similarity_score,
                                          chunk_text,
                                          search_results[k].matched_text)]]

\* Python's max(results, key=score): the first result of the highest score
FirstMax(results) ==
    LET k == CHOOSE i \in 1..Len(results) :
                /\ \A j \in 1..Len(results) :
                      results[j].similarity_score <= results[i].similarity_score
                /\ \A j \in 1..(i - 1) :
                      results[j].similarity_score < results[i].similarity_score
    IN  results[k]

\* PlagiarismDetector._analyze_chunk
analyze_chunk(chunk_index, chunk_text, search_results) ==
    IF search_results = <<>>
    THEN [chunk_index |-> chunk_index, text |-> chunk_text,
          max_similarity |-> 0, status |-> "SAFE",
          best_match_doc_id |-> NoneDoc, matches |-> <<>>]
    ELSE LET combined_results == Rescore(chunk_text, search_results)
             max_result == FirstMax(combined_results)
         IN  [chunk_index |-> chunk_index, text |-> chunk_text,
              max_similarity |-> max_result.similarity_score,
              status |-> get_severity(max_result.similarity_score, 1000),
              best_match_doc_id |-> max_result.document_id,
              matches |-> combined_results]

\* check_plagiarism, "Add matches": one PlagiarismMatch per result of the
\* chunk, built after _analyze_chunk has rewritten the results' scores
chunk_matches(chunk_index, chunk_text, rescored) ==
    [k \in 1..Len(rescored) |->
        [document_id |-> rescored[k].document_id,
         matched_text |-> rescored[k].matched_text,
         input_text |-> chunk_text,
         similarity_score |-> rescored[k].similarity_score,
         chunk_index |-> chunk_index,
         matched_chunk_id |-> rescored[k].chunk_id]]

RECURSIVE SumWordCount(_)
SumWordCount(chunks) ==
    IF chunks = <<>> THEN 0
    ELSE WordCount(Head(chunks)) + SumWordCount(Tail(chunks))

RECURSIVE plagiarized_weighted(_, _, _, _)
plagiarized_weighted(chunks, chunk_results, i, threshold) ==
    IF i > Len(chunk_results) THEN 0
    ELSE (IF chunk_results[i].max_similarity >= threshold
          THEN WordCount(chunks[i]) * chunk_results[i].max_similarity
          ELSE 0)
         + plagiarized_weighted(chunks, chunk_results, i + 1, threshold)

\* a slip in the threshold test: a chunk exactly at similarity_low is
\* left out
calculate_base_percentage_strict(chunks, chunk_results) ==
    IF chunks = <<>> \/ chunk_results = <<>> THEN [num |-> 0, den |-> 1]
    ELSE IF SumWordCount(chunks) = 0 THEN [num |-> 0, den |-> 1]
    ELSE [num |-> plagiarized_weighted(chunks, chunk_results, 1,
                                       similarity_low + 1),
          den |-> 10 * SumWordCount(chunks)]

\* a slip: the unthresholded weighted mean, every chunk counted
calculate_base_percentage_unthresholded(chunks, chunk_results) ==
    IF chunks = <<>> \/ chunk_results = <<>> THEN [num |-> 0, den |-> 1]
    ELSE IF SumWordCount(chunks) = 0 THEN [num |-> 0, den |-> 1]
    ELSE [num |-> plagiarized_weighted(chunks, chunk_results, 1, 0),
          den |-> 10 * SumWordCount(chunks)]

\* PlagiarismDetector._calculate_base_percentage:
\* (plagiarized_weighted / total_words) * 100, the weights in thousandths
calculate_base_percentage(chunks, chunk_results) ==
    IF chunks = <<>> \/ chunk_results = <<>> THEN [num |-> 0, den |-> 1]
    ELSE IF SumWordCount(chunks) = 0 THEN [num |-> 0, den |-> 1]
    ELSE [num |-> plagiarized_weighted(chunks, chunk_results, 1,
                                       similarity_low),
          den |-> 10 * SumWordCount(chunks)]

\* sorted(..., key=score, reverse=True) is stable: a match goes behind
\* every match of the same or a higher score that came before it
RECURSIVE SortByScoreDesc(_)
SortByScoreDesc(matches) ==
    IF matches = <<>> THEN <<>>
    ELSE LET n == Len(matches)
             m == matches[n]
             front == SortByScoreDesc(SubSeq(matches, 1, n - 1))
             ahead == SelectSeq(front,
                        LAMBDA x : x.similarity_score >= m.similarity_score)
             behind == SelectSeq(front,
                        LAMBDA x : x.similarity_score < m.similarity_score)
         IN  ahead \o <<m>> \o behind

RECURSIVE dedup_loop(_, _, _)
dedup_loop(sorted_matches, seen, unique) ==
    IF sorted_matches = <<>> THEN unique
    ELSE LET match == Head(sorted_matches)
             key == match.matched_chunk_id
         IN  IF key \notin seen
             THEN dedup_loop(Tail(sorted_matches), seen \cup {key},
                             Append(unique, match))
             ELSE dedup_loop(Tail(sorted_matches), seen, unique)

\* a slip: the matches are deduplicated in the order they were collected
deduplicate_matches_unsorted(matches) ==
    dedup_loop(matches, {}, <<>>)

\* PlagiarismDetector._deduplicate_matches
deduplicate_matches(matches) ==
    dedup_loop(SortByScoreDesc(matches), {}, <<>>)

----------------------------------------------------------------------------
(* The explainer (src/core/analyzer.py)                                    *)

\* what the explainer call can come back with: a failure (transport
\* error, error status, text that is no JSON), or a JSON object in which
\* "plagiarism_percentage" and "severity" may each be present or not
ExplainerReplies ==
    [ok : {FALSE}, has_pct : {FALSE}, pct : {0}, has_sev : {FALSE},
     sev : {"SAFE"}]
    \cup [ok : {TRUE}, has_pct : {FALSE}, pct : {0}, has_sev : BOOLEAN,
          sev : {"CRITICAL"}]
    \cup [ok : {TRUE}, has_pct : {TRUE}, pct : {-5, 50, 150},
          has_sev : BOOLEAN, sev : {"CRITICAL"}]

\* BaseAnalyzer._fallback_result
fallback_result(base_percentage) ==
    [plagiarism_percentage |-> base_percentage,
     severity |-> analyzer_get_severity(base_percentage),
     confidence |-> 600]

\* BaseAnalyzer._parse_response on a JSON object
parse_response(reply, base_percentage) ==
    [plagiarism_percentage |->
        IF reply.has_pct THEN [num |-> reply.pct, den |-> 1]
        ELSE base_percentage,
     severity |->
        IF reply.has_sev THEN reply.sev
        ELSE analyzer_get_severity(base_percentage),
     confidence |-> 800]

\* OllamaAnalyzer.analyze / GeminiAnalyzer.analyze
analyze(reply, base_percentage) ==
    IF reply.ok THEN parse_response(reply, base_percentage)
    ELSE fallback_result(base_percentage)

\* _run_ai_analysis that cuts the match list itself down to what it sends
run_ai_analysis_in_place(matches, reply, base_percentage) ==
    LET sent == SubSeq(matches, 1, Min(1, Len(matches)))
    IN  [ai_result |-> analyze(reply, base_percentage),
         match_dicts |-> [k \in 1..Len(sent) |->
                            [matched_text |-> sent[k].matched_text,
                             similarity_score |-> sent[k].similarity_score]],
         matches |-> sent]

\* PlagiarismDetector._run_ai_analysis: the first 10 matches are copied
\* into dictionaries for the prompt; matches is the caller's list as the
\* call leaves it
run_ai_analysis(matches, reply, base_percentage) ==
    LET sent == SubSeq(matches, 1, Min(10, Len(matches)))
    IN  [ai_result |-> analyze(reply, base_percentage),
         match_dicts |-> [k \in 1..Len(sent) |->
                            [matched_text |-> sent[k].matched_text,
                             similarity_score |-> sent[k].similarity_score]],
         matches |-> matches]

----------------------------------------------------------------------------
(* State *)

VARIABLES
    es_docs,        \* documents index: chunk_count of each document, or NoDoc
    es_chunks,      \* chunks index: the chunk bodies stored
    es_visible,     \* chunks index as the last refresh left it for searches
    pc,             \* position of the check being served
    request,        \* the check's input chunks and options
    max_results_per_source,   \* Settings.max_results_per_source
    chunk_results,  \* check_plagiarism: chunk_results
    all_matches,    \* check_plagiarism: all_matches
    engine_hits,    \* hits the engine returned to the latest vector_search
    search_results, \* what the latest vector_search returned
    base_percentage,\* check_plagiarism: base_percentage
    explainer_called, \* whether _run_ai_analysis ran
    result,         \* the PlagiarismResult returned
    search_failed,  \* whether a vector search of this check has failed
    dd_pc,          \* position of a call of _deduplicate_matches
    dd_matches,     \* its argument
    dd_unique,      \* its return value
    worker,         \* position of each worker thread in a store operation
    ops,            \* number of store operations begun
    history,        \* per document: what was done to it, undisturbed
    failures,       \* whether a call to the engine has failed
    overlaps,       \* whether two operations on one document overlapped
    last_get,       \* outcome of the latest get_document
    last_knn        \* outcome of the latest vector_search on the store

VARIABLES
    pdf_pc,         \* position of upload_pdf_from_minio / check_pdf_from_minio
    pdf_op,         \* which of the two operations is being served
    local_path,     \* its local_path: NoPath for None, else a file name
    disk,           \* names of the temporary files on disk
    pdf_calls,      \* number of operations begun
    pdf_outcome,    \* how the latest operation ended
    eb_pc,          \* position of a call of embed_batch
    eb_texts,       \* embed_batch: texts
    eb_batch_size,  \* Settings.embedding_batch_size
    eb_i,           \* embed_batch: i, start of the current batch (from 0)
    all_embeddings, \* embed_batch: all_embeddings
    eb_failure,     \* how the latest batch call of this embed_batch failed
    eb_unretried,   \* whether a failed batch was left without a retry
    ck_pc,          \* position of a call of chunk_text
    chunker,        \* TextChunker: chunk_size, chunk_overlap, min_chunk_size
    ck_words,       \* chunk_text: len(words); the words are 1..ck_words
    word_index,     \* chunk_text: word_index
    ck_chunks,      \* chunk_text: chunks
    ck_position,    \* chunk_text: position, counted modulo MaxIters + 1
    ps_pc,          \* position of an ingest's chunking
    ps_kind,        \* "text" for upload_document, "pdf" for the PDF ingest
    ps_sections,    \* word counts of the document's sections
    ps_chunks,      \* the chunks the ingest persists
    ix_pc,          \* position of a call of create_index
    ix_force,       \* create_index: force
    docs_index,     \* the documents index: "absent", "empty" or "data"
    chunks_index,   \* the chunks index: "absent", "empty" or "data"
    ix_result,      \* what the latest create_index returned
    ix_calls        \* number of calls of create_index begun

VARIABLES
    srv_pc,         \* position of the server: start(), serving, stop()
    grpc_tls_enabled, \* Settings.grpc_tls_enabled
    key_file,       \* whether Settings.grpc_key_path can be read
    cert_file,      \* whether Settings.grpc_cert_path can be read
    port,           \* the port the gRPC server listens on
    instances,      \* per client: number of wrapper objects constructed
    client_of,      \* per client: its _client, NoPool for None
    pools_created,  \* per client: number of connection pools constructed
    open_pools,     \* per client: the pools constructed and not closed
    w_pc,           \* per worker thread: position in the client property
    w_kind,         \* per worker thread: the client it is using
    w_seen_none,    \* per worker thread: what "_client is None" read
    uses,           \* number of client uses begun
    metrics_server, \* "none", "started" or "stopped"
    file_logger,    \* "none", "open" or "closed"
    stop_outcome,   \* how stop() ended: "none", "returned" or "raised"
    call_pc,        \* position of a call of a text function
    call_args,      \* its arguments
    call_result,    \* its return value
    up_pc,          \* position of an ingest (upload_document)
    up_doc,         \* the document being ingested and its chunks
    up_before,      \* the two indices as they were when the ingest began
    up_written,     \* number of chunks the ingest has written
    up_result,      \* what the ingest returned: its success
    up_calls        \* number of ingests begun

pdf_vars == <<pdf_pc, pdf_op, local_path, disk, pdf_calls, pdf_outcome>>

embed_vars == <<eb_pc, eb_texts, eb_batch_size, eb_i, all_embeddings, eb_failure,
               eb_unretried>>

chunker_vars == <<ck_pc, chunker, ck_words, word_index, ck_chunks,
                  ck_position>>

sections_vars == <<ps_pc, ps_kind, ps_sections, ps_chunks>>

index_vars == <<ix_pc, ix_force, docs_index, chunks_index, ix_result,
               ix_calls>>

server_vars == <<srv_pc, grpc_tls_enabled, key_file, cert_file, port, instances,
                 client_of, pools_created, open_pools, w_pc, w_kind,
                 w_seen_none, uses, metrics_server, file_logger, stop_outcome>>

call_vars == <<call_pc, call_args, call_result>>

upload_vars == <<up_pc, up_doc, up_before, up_written, up_result, up_calls>>

early_vars == <<pdf_vars, embed_vars, chunker_vars, sections_vars, index_vars>>

late_vars == <<server_vars, call_vars, upload_vars>>

aux_vars == <<early_vars, late_vars>>

vars == <<es_docs, es_chunks, es_visible, pc, request,
          max_results_per_source, chunk_results, all_matches, engine_hits,
          search_results, base_percentage, explainer_called, result,
          search_failed, dd_pc, dd_matches, dd_unique, worker, ops, history, failures,
          overlaps, last_get, last_knn, aux_vars>>

dedup_vars == <<dd_pc, dd_matches, dd_unique>>

ops_vars == <<worker, ops, history, failures, overlaps, last_get,
             last_knn>>

store_vars == <<es_docs, es_chunks, es_visible>>

check_vars == <<pc, request, max_results_per_source, chunk_results,
                all_matches, engine_hits, search_results, base_percentage,
                explainer_called, result, search_failed>>

Zero == [num |-> 0, den |-> 1]

\* the chunks index after documents d1 and d2 were ingested with n1 and n2
\* chunks
IngestedChunks(n1, n2) ==
    {chunk_body("d1", i) : i \in 0..(n1 - 1)}
    \cup {chunk_body("d2", i) : i \in 0..(n2 - 1)}

\* PlagiarismDetector._empty_result
empty_result ==
    [plagiarism_percentage |-> Zero, severity |-> "SAFE", matches |-> <<>>,
     chunk_analysis |-> <<>>]

\* sequences of at most n elements of S
SeqUpTo(S, n) == UNION {[1..k -> S] : k \in 0..n}

\* the checks served: input chunks (as the chunker or the PDF processor
\* delivers them) and the request's options
Requests ==
    [chunks : SeqUpTo(InputTexts, MaxChunks),
     include_ai_analysis : BOOLEAN,
     min_similarity : {min_score_threshold, 300},
     top_k : {MaxTopK},
     exclude_doc_ids : {{}, {"d1"}}]

Workers == {"w1", "w2"}

idle == [op |-> "idle", doc |-> "d1", n |-> 0, i |-> 0, alone |-> TRUE]

\* no call of _deduplicate_matches under way
DedupIdle ==
    /\ dd_pc = "idle"
    /\ dd_matches = <<>>
    /\ dd_unique = <<>>

\* no store operation under way, none made yet
OpsIdle ==
    /\ worker = [w \in Workers |-> idle]
    /\ ops = 0
    /\ history = [d \in Docs |-> "none"]
    /\ failures = FALSE
    /\ overlaps = FALSE
    /\ last_get = [document_id |-> "d1", found |-> FALSE, deleted |-> FALSE]
    /\ last_knn = [results |-> <<>>, deleted |-> {}]

\* no check under way
CheckIdle ==
    /\ pc = "idle"
    /\ request = [chunks |-> <<>>, include_ai_analysis |-> FALSE,
                  min_similarity |-> min_score_threshold, top_k |-> MaxTopK,
                  exclude_doc_ids |-> {}]
    /\ chunk_results = <<>>
    /\ all_matches = <<>>
    /\ engine_hits = <<>>
    /\ search_results = <<>>
    /\ base_percentage = Zero
    /\ explainer_called = FALSE
    /\ result = empty_result
    /\ search_failed = FALSE

NoPath == 0

\* no PDF operation under way, no temporary file on disk
PdfIdle ==
    /\ pdf_pc = "idle"
    /\ pdf_op = "upload"
    /\ local_path = NoPath
    /\ disk = {}
    /\ pdf_calls = 0
    /\ pdf_outcome = "none"

\* no call of embed_batch under way
EmbedIdle ==
    /\ eb_pc = "idle"
    /\ eb_texts = <<>>
    /\ eb_batch_size = 1
    /\ eb_i = 0
    /\ all_embeddings = <<>>
    /\ eb_failure = "none"
    /\ eb_unretried = FALSE

\* no call of chunk_text under way
ChunkerIdle ==
    /\ ck_pc = "idle"
    /\ chunker = [chunk_size |-> 1, chunk_overlap |-> 0, min_chunk_size |-> 1]
    /\ ck_words = 0
    /\ word_index = 0
    /\ ck_chunks = <<>>
    /\ ck_position = 0

\* no ingest chunking a document
SectionsIdle ==
    /\ ps_pc = "idle"
    /\ ps_kind = "text"
    /\ ps_sections = <<>>
    /\ ps_chunks = <<>>

\* no call of create_index made
IndexIdle ==
    /\ ix_pc = "idle"
    /\ ix_force = FALSE
    /\ docs_index = "absent"
    /\ chunks_index = "absent"
    /\ ix_result = "none"
    /\ ix_calls = 0

EarlyIdle ==
    /\ PdfIdle
    /\ EmbedIdle
    /\ ChunkerIdle
    /\ SectionsIdle
    /\ IndexIdle

\* the process-wide clients: vector store, embedder, explainer, object store
Clients == {"es", "ollama", "analyzer", "minio"}

NoPool == 0

\* the server not constructed
ServerIdle ==
    /\ srv_pc = "idle"
    /\ grpc_tls_enabled = FALSE
    /\ key_file = FALSE
    /\ cert_file = FALSE
    /\ port = "none"
    /\ instances = [k \in Clients |-> 0]
    /\ client_of = [k \in Clients |-> NoPool]
    /\ pools_created = [k \in Clients |-> 0]
    /\ open_pools = [k \in Clients |-> {}]
    /\ w_pc = [w \in Workers |-> "idle"]
    /\ w_kind = [w \in Workers |-> "es"]
    /\ w_seen_none = [w \in Workers |-> FALSE]
    /\ uses = 0
    /\ metrics_server = "none"
    /\ file_logger = "none"
    /\ stop_outcome = "none"

\* no call of a text function
CallIdle ==
    /\ call_pc = "idle"
    /\ call_args = <<>>
    /\ call_result = <<>>

\* no ingest
UploadIdle ==
    /\ up_pc = "idle"
    /\ up_doc = <<>>
    /\ up_before = <<>>
    /\ up_written = 0
    /\ up_result = "none"
    /\ up_calls = 0

LateIdle ==
    /\ ServerIdle
    /\ CallIdle
    /\ UploadIdle

AuxIdle ==
    /\ EarlyIdle
    /\ LateIdle

\* the store empty, no check, no deduplication and no store operation
CoreIdle ==
    /\ es_docs = [d \in Docs |-> NoDoc]
    /\ es_chunks = {}
    /\ es_visible = {}
    /\ max_results_per_source = MaxCap
    /\ CheckIdle
    /\ DedupIdle
    /\ OpsIdle

core_vars == <<store_vars, check_vars, dedup_vars, ops_vars>>

CheckInit ==
    /\ es_docs = [d \in Docs |-> IF d = "d1" THEN MaxDocChunks ELSE 1]
    /\ es_chunks = IngestedChunks(MaxDocChunks, 1)
    /\ es_visible = es_chunks
    /\ pc = "start"
    /\ request \in Requests
    /\ max_results_per_source \in 1..MaxCap
    /\ chunk_results = <<>>
    /\ all_matches = <<>>
    /\ engine_hits = <<>>
    /\ search_results = <<>>
    /\ base_percentage = Zero
    /\ explainer_called = FALSE
    /\ result = empty_result
    /\ search_failed = FALSE
    /\ DedupIdle
    /\ OpsIdle
    /\ AuxIdle

\* check_plagiarism, "if not chunks": the empty result
CheckEmpty ==
    /\ pc = "start"
    /\ request.chunks = <<>>
    /\ result' = empty_result
    /\ pc' = "done"
    /\ UNCHANGED <<store_vars, dedup_vars, aux_vars, ops_vars, request, max_results_per_source,
                   chunk_results, all_matches, engine_hits, search_results,
                   base_percentage, explainer_called, search_failed>>

\* check_plagiarism, one round of the loop over the chunks: vector search,
\* _analyze_chunk, and the chunk's matches appended to all_matches
SearchChunk ==
    /\ pc = "start"
    /\ request.chunks # <<>>
    /\ Len(chunk_results) < Len(request.chunks)
    /\ LET i == Len(chunk_results)
           chunk == request.chunks[i + 1]
       IN  \E engine_ok \in BOOLEAN :
           \E hits \in IF engine_ok
                       THEN KnnSearch(es_visible, chunk, request.top_k,
                                      request.exclude_doc_ids)
                       ELSE {<<>>} :
              LET found == vector_search(engine_ok, hits,
                                         request.min_similarity,
                                         max_results_per_source)
                  chunk_analysis == analyze_chunk(i, chunk, found)
              IN  /\ search_failed' = (search_failed \/ ~engine_ok)
                  /\ engine_hits' = hits
                  /\ search_results' = found
                  /\ chunk_results' = Append(chunk_results, chunk_analysis)
                  /\ all_matches' = all_matches \o
                        chunk_matches(i, chunk, chunk_analysis.matches)
    /\ UNCHANGED <<store_vars, dedup_vars, aux_vars, ops_vars, pc, request, max_results_per_source,
                   base_percentage, explainer_called, result>>

\* check_plagiarism, steps 4 to 6 when the explainer is not asked
FinishWithoutExplainer ==
    /\ pc = "start"
    /\ request.chunks # <<>>
    /\ Len(chunk_results) = Len(request.chunks)
    /\ ~(request.include_ai_analysis /\ all_matches # <<>>)
    /\ LET base == calculate_base_percentage(request.chunks, chunk_results)
       IN  /\ base_percentage' = base
           /\ result' = [plagiarism_percentage |-> base,
                         severity |-> get_severity(base.num, base.den * 100),
                         matches |-> deduplicate_matches(all_matches),
                         chunk_analysis |-> chunk_results]
    /\ explainer_called' = FALSE
    /\ pc' = "done"
    /\ UNCHANGED <<store_vars, dedup_vars, aux_vars, ops_vars, request, max_results_per_source,
                   chunk_results, all_matches, engine_hits, search_results,
                   search_failed>>

\* check_plagiarism, steps 4 to 6 with the explainer's answer taken over
FinishWithExplainer ==
    /\ pc = "start"
    /\ request.chunks # <<>>
    /\ Len(chunk_results) = Len(request.chunks)
    /\ request.include_ai_analysis /\ all_matches # <<>>
    /\ \E reply \in ExplainerReplies :
          LET base == calculate_base_percentage(request.chunks, chunk_results)
              run == run_ai_analysis(all_matches, reply, base)
              ai_result == run.ai_result
          IN  /\ base_percentage' = base
              /\ all_matches' = run.matches
              /\ result' = [plagiarism_percentage |->
                                ai_result.plagiarism_percentage,
                            severity |-> ai_result.severity,
                            matches |-> deduplicate_matches(run.matches),
                            chunk_analysis |-> chunk_results]
    /\ explainer_called' = TRUE
    /\ pc' = "done"
    /\ UNCHANGED <<store_vars, dedup_vars, aux_vars, ops_vars, request,
                   max_results_per_source, chunk_results, engine_hits,
                   search_results, search_failed>>

\* check_plagiarism, step 2: embed_batch raises (a batch call fails and is
\* not retried, or a retry fails) and the exception leaves check_plagiarism
EmbedFails ==
    /\ pc = "start"
    /\ request.chunks # <<>>
    /\ chunk_results = <<>>
    /\ pc' = "error"
    /\ UNCHANGED <<store_vars, dedup_vars, aux_vars, ops_vars, request,
                   max_results_per_source, chunk_results, all_matches,
                   engine_hits, search_results, base_percentage,
                   explainer_called, result, search_failed>>

Next ==
    \/ CheckEmpty
    \/ EmbedFails
    \/ SearchChunk
    \/ FinishWithoutExplainer
    \/ FinishWithExplainer

Spec == CheckInit /\ [][Next]_vars

----------------------------------------------------------------------------
(* Properties of a check *)

\* number of entries of seq that come from document d
CountDoc(seq, d) ==
    Cardinality({k \in 1..Len(seq) : seq[k].document_id = d})

\* the entries of seq that come from document d, in order
OfDoc(seq, d) == SelectSeq(seq, LAMBDA h : h.document_id = d)

RECURSIVE SumOver(_, _)
SumOver(S, f) ==
    IF S = {} THEN 0
    ELSE LET x == CHOOSE y \in S : TRUE
         IN  f[x] + SumOver(S \ {x}, f)

\* C1: the plagiarism percentage of every returned result lies between 0
\* and 100 inclusive, with or without the explainer.
C1_PercentageInRange ==
    pc = "done" =>
        /\ result.plagiarism_percentage.num >= 0
        /\ result.plagiarism_percentage.num
               <= 100 * result.plagiarism_percentage.den

\* C2: without the explainer the percentage is 0 exactly when no input
\* chunk has a max combined similarity >= similarity_low; an input without
\* chunks, or whose searches all came back empty, gets percentage 0,
\* severity SAFE and no matches.
C2_ZeroIffNoChunkAtThreshold ==
    (pc = "done" /\ ~explainer_called) =>
        /\ (result.plagiarism_percentage.num = 0) <=>
               (\A i \in 1..Len(result.chunk_analysis) :
                    result.chunk_analysis[i].max_similarity < similarity_low)
        /\ (\A i \in 1..Len(result.chunk_analysis) :
                result.chunk_analysis[i].matches = <<>>) =>
               /\ result.plagiarism_percentage.num = 0
               /\ result.severity = "SAFE"
               /\ result.matches = <<>>

\* a check without the explainer that found neighbours, none of which
\* lifts a chunk to similarity_low
C2_Witness ==
    /\ pc = "done"
    /\ ~explainer_called
    /\ result.matches # <<>>
    /\ result.plagiarism_percentage.num = 0

\* C3: the base percentage is 100 * (sum over the chunks i with
\* max_similarity_i >= similarity_low of word_count_i * max_similarity_i)
\* / (sum of all word counts); a chunk exactly at similarity_low counts.
C3_BasePercentageFormula ==
    (pc = "done" /\ request.chunks # <<>>) =>
        LET n == Len(request.chunks)
            counted == {i \in 1..n :
                          chunk_results[i].max_similarity >= similarity_low}
            weighted == SumOver(counted,
                          [i \in 1..n |-> WordCount(request.chunks[i])
                                          * chunk_results[i].max_similarity])
            total == SumOver(1..n,
                          [i \in 1..n |-> WordCount(request.chunks[i])])
        IN  /\ total > 0
            /\ base_percentage.num * total * 1000
                   = 100 * weighted * base_percentage.den

\* two chunks, one exactly at similarity_low and counted, one below it
C3_Witness ==
    /\ pc = "done"
    /\ Len(chunk_results) = 2
    /\ \E i, j \in 1..2 :
          /\ chunk_results[i].max_similarity = similarity_low
          /\ chunk_results[j].max_similarity < similarity_low
          /\ chunk_results[j].matches # <<>>
    /\ base_percentage.num > 0

\* C4: a vector search returns no document more than
\* max_results_per_source times; of each document it returns the first
\* max_results_per_source hits that reach min_score, in the engine's
\* order, which is a prefix of that document's hits; the same cap holds in
\* every chunk's rescored candidate list.
C4_PerSourceCap ==
    LET passing == SelectSeq(engine_hits,
                      LAMBDA h : h.similarity_score >= request.min_similarity)
        PosOf(id) == CHOOSE k \in 1..Len(engine_hits) :
                        engine_hits[k].chunk_id = id
    IN  /\ \A d \in Docs :
            LET kept == OfDoc(search_results, d)
            IN  /\ Len(kept) <= max_results_per_source
                /\ kept = SubSeq(OfDoc(passing, d), 1,
                                 Min(max_results_per_source,
                                     Len(OfDoc(passing, d))))
                /\ kept = SubSeq(OfDoc(engine_hits, d), 1, Len(kept))
        /\ \A i, j \in 1..Len(search_results) :
              i < j => PosOf(search_results[i].chunk_id)
                         < PosOf(search_results[j].chunk_id)
        /\ \A i \in 1..Len(chunk_results) : \A d \in Docs :
              CountDoc(chunk_results[i].matches, d) <= max_results_per_source

\* a search whose hits held more than the cap from one document
C4_Witness ==
    \E d \in Docs :
        /\ CountDoc(SelectSeq(engine_hits,
              LAMBDA h : h.similarity_score >= request.min_similarity), d)
                > max_results_per_source
        /\ CountDoc(search_results, d) = max_results_per_source
        /\ Len(search_results) > max_results_per_source

\* C5 as stated: over the whole checked input at most
\* max_results_per_source matched chunks come from one source document.
C5_CapPerCheckedInput ==
    pc = "done" =>
        \A d \in Docs : CountDoc(result.matches, d) <= max_results_per_source

\* C5 as amended: the cap holds per input chunk; of one document the
\* result holds at most max_results_per_source matches for each input
\* chunk, hence at most max_results_per_source times the number of input
\* chunks.
C5_CapPerInputChunk ==
    pc = "done" =>
        \A d \in Docs :
            /\ \A i \in 0..(Len(request.chunks) - 1) :
                  CountDoc(SelectSeq(result.matches,
                              LAMBDA m : m.chunk_index = i), d)
                      <= max_results_per_source
            /\ CountDoc(result.matches, d)
                   <= max_results_per_source * Len(request.chunks)

\* a result with more matches of one document than the cap
C5_Witness ==
    /\ pc = "done"
    /\ \E d \in Docs : CountDoc(result.matches, d) > max_results_per_source

\* C6: the returned matches are in non-increasing order of combined
\* similarity, no two share a matched_chunk_id, and of every matched
\* source chunk the match of the highest combined similarity is the one
\* kept.
C6_MatchesSortedUniqueBest ==
    pc = "done" =>
        LET ms == result.matches
        IN  /\ \A i \in 1..(Len(ms) - 1) :
                  ms[i].similarity_score >= ms[i + 1].similarity_score
            /\ \A i, j \in 1..Len(ms) :
                  i # j => ms[i].matched_chunk_id # ms[j].matched_chunk_id
            /\ \A k \in 1..Len(all_matches) :
                  \E i \in 1..Len(ms) :
                     /\ ms[i].matched_chunk_id
                            = all_matches[k].matched_chunk_id
                     /\ ms[i].similarity_score
                            >= all_matches[k].similarity_score
            /\ \A i \in 1..Len(ms) :
                  \E k \in 1..Len(all_matches) : all_matches[k] = ms[i]

\* a source chunk hit by two input chunks with different scores
C6_Witness ==
    /\ pc = "done"
    /\ Len(result.matches) >= 2
    /\ \E k, l \in 1..Len(all_matches) :
          /\ all_matches[k].matched_chunk_id = all_matches[l].matched_chunk_id
          /\ all_matches[k].chunk_index < all_matches[l].chunk_index
          /\ all_matches[k].similarity_score < all_matches[l].similarity_score

\* C11: a check during which the embedder or the vector store failed
\* returns no result: whenever check_plagiarism has returned a result,
\* none of its vector searches had failed.
C11_FailureAbortsCheck ==
    pc = "done" => ~search_failed

\* the matches of a check as its per-chunk analyses hold them, in order
RECURSIVE MatchesOfAnalyses(_)
MatchesOfAnalyses(analyses) ==
    IF analyses = <<>> THEN <<>>
    ELSE LET n == Len(analyses)
             last == analyses[n]
         IN  MatchesOfAnalyses(SubSeq(analyses, 1, n - 1))
                \o chunk_matches(last.chunk_index, last.text, last.matches)

\* C14: a check served with the explainer returns the match list and the
\* per-chunk analyses that the same check returns without it, whatever
\* the explainer answered and also when its call failed.
C14_ExplainerLeavesMatches ==
    (pc = "done" /\ explainer_called) =>
        /\ result.chunk_analysis = chunk_results
        /\ result.matches
              = deduplicate_matches(MatchesOfAnalyses(chunk_results))

\* a check with several distinct matches whose percentage the explainer
\* has changed
C14_Witness ==
    /\ pc = "done"
    /\ explainer_called
    /\ Len(result.matches) >= 2
    /\ result.plagiarism_percentage # base_percentage

\* scores around every threshold of the severity scale
SeverityScores ==
    {0, 1, 499, 500, 501, 699, 700, 701, 849, 850, 851, 949, 950, 951,
     999, 1000}

\* the band of the score n/d on the scale 0.50 / 0.70 / 0.85 / 0.95
InBand(label, n, d) ==
    CASE label = "CRITICAL" -> n * 100 >= 95 * d
      [] label = "HIGH" -> n * 100 >= 85 * d /\ n * 100 < 95 * d
      [] label = "MEDIUM" -> n * 100 >= 70 * d /\ n * 100 < 85 * d
      [] label = "LOW" -> n * 100 >= 50 * d /\ n * 100 < 70 * d
      [] label = "SAFE" -> n * 100 < 50 * d

\* C18: get_severity gives every score in [0,1] the one label of its
\* band (CRITICAL from 0.95, HIGH from 0.85, MEDIUM from 0.70, LOW from
\* 0.50, SAFE below), and without the explainer the severity of a check
\* is the label of percentage / 100.
C18_SeverityPartition ==
    /\ \A score \in SeverityScores : \A label \in Severities :
          get_severity(score, 1000) = label <=> InBand(label, score, 1000)
    /\ \A k \in 1..Len(chunk_results) : \A label \in Severities :
          chunk_results[k].status = label
              <=> InBand(label, chunk_results[k].max_similarity, 1000)
    /\ (pc = "done" /\ ~explainer_called) =>
          \A label \in Severities :
             result.severity = label
                <=> InBand(label, result.plagiarism_percentage.num,
                           result.plagiarism_percentage.den * 100)

\* a check without the explainer whose percentage lies strictly between 0
\* and 100 and whose severity is neither the lowest nor the highest
C18_Witness ==
    /\ pc = "done"
    /\ ~explainer_called
    /\ result.severity \in {"LOW", "MEDIUM", "HIGH"}
    /\ \E k \in 1..Len(chunk_results) : chunk_results[k].status = "CRITICAL"

\* semantic and lexical scores in [0,1]
ScoreGrid == {100 * k : k \in 0..10}

\* the citation penalty on scores in [0,1] and on the chunks of a check:
\* the combined score of a cited input chunk is
\* max(0, 0.5 s + 0.5 lex - 0.15), at most 0.85 and never CRITICAL; an
\* input chunk without citation gets no penalty
CitationPenalty ==
    /\ \A s \in ScoreGrid : \A lex \in ScoreGrid :
          /\ combined_score(s, lex, TRUE)
                = Max(0, (s * 500 + lex * 500) \div 1000 - 150)
          /\ combined_score(s, lex, TRUE) <= 850
          /\ get_severity(combined_score(s, lex, TRUE), 1000) # "CRITICAL"
          /\ combined_score(s, lex, FALSE) = (s * 500 + lex * 500) \div 1000
    /\ \A k \in 1..Len(chunk_results) :
          has_citation(chunk_results[k].text) =>
             /\ chunk_results[k].max_similarity <= 850
             /\ chunk_results[k].status # "CRITICAL"

\* C19 as stated: the citation penalty, and a single-chunk cited input is
\* never classified CRITICAL, with or without the explainer.
C19_CitedNeverCritical ==
    /\ CitationPenalty
    /\ (/\ pc = "done"
        /\ Len(request.chunks) = 1
        /\ has_citation(request.chunks[1])) => result.severity # "CRITICAL"

\* C19 amended: the citation penalty, and a single-chunk cited input
\* checked without the explainer is never classified CRITICAL.
C19_CitedNeverCriticalWithoutExplainer ==
    /\ CitationPenalty
    /\ (/\ pc = "done"
        /\ ~explainer_called
        /\ Len(request.chunks) = 1
        /\ has_citation(request.chunks[1])) => result.severity # "CRITICAL"

\* a single cited chunk checked without the explainer against the text it
\* quotes: the penalty keeps it below CRITICAL
C19_Witness ==
    /\ pc = "done"
    /\ ~explainer_called
    /\ Len(request.chunks) = 1
    /\ has_citation(request.chunks[1])
    /\ chunk_results[1].max_similarity > 700
    /\ chunk_results[1].max_similarity + 150 >= 950
    /\ result.severity \in {"MEDIUM", "HIGH"}

----------------------------------------------------------------------------
(* _deduplicate_matches on its own *)

\* the matches handed to _deduplicate_matches; matched_chunk_id may be
\* left at its default
DedupMatches ==
    [document_id : Docs, matched_text : {"a"}, input_text : {"a"},
     similarity_score : {700, 800, 900}, chunk_index : {0, 1},
     matched_chunk_id : {UnsetChunkId, ChunkId("d1", 0)}]

DedupInit ==
    /\ es_docs = [d \in Docs |-> NoDoc]
    /\ es_chunks = {}
    /\ es_visible = {}
    /\ max_results_per_source = MaxCap
    /\ CheckIdle
    /\ OpsIdle
    /\ AuxIdle
    /\ dd_pc = "call"
    /\ dd_matches \in SeqUpTo(DedupMatches, MaxMatches)
    /\ dd_unique = <<>>

Deduplicate ==
    /\ dd_pc = "call"
    /\ dd_unique' = deduplicate_matches(dd_matches)
    /\ dd_pc' = "returned"
    /\ UNCHANGED <<store_vars, check_vars, ops_vars, aux_vars, dd_matches>>

DedupNext == Deduplicate

DedupSpec == DedupInit /\ [][DedupNext]_vars

\* C7: _deduplicate_matches keeps the highest-scoring match of every
\* (document id, input chunk index) pair, sorted by score descending;
\* matches of different pairs are all kept, whatever their
\* matched_chunk_id.
C7_KeepsBestPerDocAndChunk ==
    dd_pc = "returned" =>
        /\ \A i \in 1..(Len(dd_unique) - 1) :
              dd_unique[i].similarity_score
                  >= dd_unique[i + 1].similarity_score
        /\ \A k \in 1..Len(dd_matches) :
              \E i \in 1..Len(dd_unique) :
                 /\ dd_unique[i].document_id = dd_matches[k].document_id
                 /\ dd_unique[i].chunk_index = dd_matches[k].chunk_index
                 /\ dd_unique[i].similarity_score
                        >= dd_matches[k].similarity_score

----------------------------------------------------------------------------
(* The store under concurrent ingests and deletes.  Every call to the      *)
(* engine is one step; a worker thread of the server runs index_document   *)
(* or delete_document call by call.  A write to the chunks index is        *)
(* searchable only after a refresh of that index.                          *)

StoreInit ==
    /\ es_docs = [d \in Docs |-> NoDoc]
    /\ es_chunks = {}
    /\ es_visible = {}
    /\ max_results_per_source = MaxCap
    /\ CheckIdle
    /\ DedupIdle
    /\ OpsIdle
    /\ AuxIdle

\* worker w is the only one working on document d
Alone(w, d) ==
    \A v \in Workers \ {w} : worker[v].op = "idle" \/ worker[v].doc # d

\* the workers once w begins op on document d: whoever works on d already
\* is no longer alone on it
Begin(w, op, d, n) ==
    [v \in Workers |->
        IF v = w
        THEN [op |-> op, doc |-> d, n |-> n, i |-> 0, alone |-> Alone(w, d)]
        ELSE IF worker[v].op # "idle" /\ worker[v].doc = d
             THEN [worker[v] EXCEPT !.alone = FALSE]
             ELSE worker[v]]

\* index_document, first call: client.index of the document body with
\* chunk_count = len(document.chunks); an exception ends the operation
\* with False
IndexDoc(w, d, n) ==
    /\ worker[w].op = "idle"
    /\ ops < MaxOps
    /\ ops' = ops + 1
    /\ history' = [history EXCEPT ![d] = "none"]
    /\ \/ /\ es_docs' = [es_docs EXCEPT ![d] = n]
          /\ worker' = Begin(w, "ix_chunk", d, n)
          /\ overlaps' = (overlaps \/ ~Alone(w, d))
          /\ UNCHANGED failures
       \/ /\ failures' = TRUE
          /\ UNCHANGED <<es_docs, worker, overlaps>>
    /\ UNCHANGED <<es_chunks, es_visible, max_results_per_source,
                   check_vars, dedup_vars, aux_vars, last_get, last_knn>>

\* index_document, the loop over the chunks: client.index of one chunk
IndexChunk(w) ==
    /\ worker[w].op = "ix_chunk"
    /\ LET d == worker[w].doc
           i == worker[w].i
       IN  \/ /\ es_chunks' = PutChunk(es_chunks, chunk_body(d, i))
              /\ worker' = [worker EXCEPT
                    ![w].i = i + 1,
                    ![w].op = IF i + 1 = worker[w].n THEN "ix_refresh"
                              ELSE "ix_chunk"]
              /\ UNCHANGED failures
           \/ /\ failures' = TRUE
              /\ worker' = [worker EXCEPT ![w] = idle]
              /\ UNCHANGED es_chunks
    /\ UNCHANGED <<es_docs, es_visible, max_results_per_source, check_vars,
                   dedup_vars, aux_vars, ops, history, overlaps, last_get, last_knn>>

\* index_document, the two refresh calls, then return True
IndexRefresh(w) ==
    /\ worker[w].op = "ix_refresh"
    /\ \/ /\ es_visible' = es_chunks
          /\ history' = [history EXCEPT ![worker[w].doc] =
                            IF worker[w].alone THEN "uploaded" ELSE "none"]
          /\ UNCHANGED failures
       \/ /\ failures' = TRUE
          /\ UNCHANGED <<es_visible, history>>
    /\ worker' = [worker EXCEPT ![w] = idle]
    /\ UNCHANGED <<es_docs, es_chunks, max_results_per_source, check_vars,
                   dedup_vars, aux_vars, ops, overlaps, last_get, last_knn>>

\* delete_document, first call: client.delete of the document; NotFoundError
\* and any other exception end the operation with False
DeleteDoc(w, d) ==
    /\ worker[w].op = "idle"
    /\ ops < MaxOps
    /\ ops' = ops + 1
    /\ \/ /\ es_docs[d] # NoDoc
          /\ es_docs' = [es_docs EXCEPT ![d] = NoDoc]
          /\ worker' = Begin(w, "del_chunks", d, 0)
          /\ overlaps' = (overlaps \/ ~Alone(w, d))
          /\ UNCHANGED failures
       \/ /\ es_docs[d] = NoDoc
          /\ UNCHANGED <<es_docs, worker, failures, overlaps>>
       \/ /\ failures' = TRUE
          /\ UNCHANGED <<es_docs, worker, overlaps>>
    /\ UNCHANGED <<es_chunks, es_visible, max_results_per_source,
                   check_vars, dedup_vars, aux_vars, history, last_get, last_knn>>

\* delete_document, second call: client.delete_by_query of the chunks the
\* query finds for the document, then return True; no refresh follows
DeleteChunks(w) ==
    /\ worker[w].op = "del_chunks"
    /\ LET d == worker[w].doc
           found == {c.chunk_id : c \in {v \in es_visible :
                                            v.document_id = d}}
       IN  \/ /\ es_chunks' = {c \in es_chunks : c.chunk_id \notin found}
              /\ history' = [history EXCEPT ![d] =
                    IF worker[w].alone /\ history[d] = "uploaded"
                    THEN "deleted" ELSE "none"]
              /\ UNCHANGED failures
           \/ /\ failures' = TRUE
              /\ history' = [history EXCEPT ![d] = "none"]
              /\ UNCHANGED es_chunks
    /\ worker' = [worker EXCEPT ![w] = idle]
    /\ UNCHANGED <<es_docs, es_visible, max_results_per_source, check_vars,
                   dedup_vars, aux_vars, ops, overlaps, last_get, last_knn>>

\* the engine's periodic refresh of the chunks index
EsRefresh ==
    /\ es_visible # es_chunks
    /\ es_visible' = es_chunks
    /\ UNCHANGED <<es_docs, es_chunks, max_results_per_source, check_vars,
                   dedup_vars, aux_vars, ops_vars>>

\* get_document: client.get reads the documents index in real time
GetDocument(d) ==
    /\ ops < MaxOps
    /\ ops' = ops + 1
    /\ last_get' = [document_id |-> d, found |-> es_docs[d] # NoDoc,
                    deleted |-> history[d] = "deleted"]
    /\ UNCHANGED <<store_vars, max_results_per_source, check_vars,
                   dedup_vars, aux_vars, worker, history, failures, overlaps,
                   last_knn>>

\* vector_search with the embedding of a stored chunk's text
VectorSearch(q) ==
    /\ ops < MaxOps
    /\ ops' = ops + 1
    /\ \E hits \in KnnSearch(es_visible, q, MaxTopK, {}) :
          last_knn' = [results |-> vector_search(TRUE, hits,
                                                 min_score_threshold,
                                                 max_results_per_source),
                       deleted |-> {d \in Docs : history[d] = "deleted"}]
    /\ UNCHANGED <<store_vars, max_results_per_source, check_vars,
                   dedup_vars, aux_vars, worker, history, failures, overlaps,
                   last_get>>

StoreNext ==
    \/ \E w \in Workers, d \in Docs, n \in 1..MaxDocChunks : IndexDoc(w, d, n)
    \/ \E w \in Workers : IndexChunk(w)
    \/ \E w \in Workers : IndexRefresh(w)
    \/ \E w \in Workers, d \in Docs : DeleteDoc(w, d)
    \/ \E w \in Workers : DeleteChunks(w)
    \/ EsRefresh
    \/ \E d \in Docs : GetDocument(d)
    \/ \E q \in CorpusTexts : VectorSearch(q)

StoreSpec == StoreInit /\ [][StoreNext]_vars

\* no store operation is under way
Quiescent == \A w \in Workers : worker[w].op = "idle"

\* C8: in every reachable state of the store every chunk of the chunks
\* index belongs to a document that exists in the documents index.
C8_NoOrphanChunks ==
    \A c \in es_chunks : es_docs[c.document_id] # NoDoc

\* C9: once a successful upload of a document was followed by
\* delete_document returning True, get_document reports it not found and
\* no vector search returns a result of that document.
C9_DeletedDocumentGone ==
    /\ last_get.deleted => ~last_get.found
    /\ \A k \in 1..Len(last_knn.results) :
          last_knn.results[k].document_id \notin last_knn.deleted

\* C10: after any sequence of ingests and deletes, each run to its end
\* without a failed call, the chunks stored for a document have exactly the
\* positions 0..chunk_count-1, each once.
C10_PositionsContiguous ==
    (Quiescent /\ ~failures /\ ~overlaps) =>
        \A d \in Docs :
            es_docs[d] # NoDoc =>
                LET mine == {c \in es_chunks : c.document_id = d}
                IN  /\ {c.position : c \in mine} = 0..(es_docs[d] - 1)
                    /\ Cardinality(mine) = es_docs[d]

----------------------------------------------------------------------------
(* upload_pdf_from_minio and check_pdf_from_minio: the temporary file of   *)
(* the download.  MinioClient.download_file creates the file, then         *)
(* fetches the object into it; the caller removes the file it was given    *)
(* the path of.                                                            *)

PdfInit ==
    /\ CoreIdle
    /\ AuxIdle

\* the "finally" of both operations: the file at local_path is removed if
\* local_path is set and the file exists
remove_temp_file(path, files) ==
    IF path # NoPath /\ path \in files THEN files \ {path} ELSE files

\* a request for one of the two operations arrives; local_path is unset
PdfBegin(op) ==
    /\ pdf_pc \in {"idle", "returned"}
    /\ pdf_calls < MaxPdfCalls
    /\ pdf_calls' = pdf_calls + 1
    /\ pdf_op' = op
    /\ pdf_pc' = "object_exists"
    /\ local_path' = NoPath
    /\ pdf_outcome' = "none"
    /\ UNCHANGED <<core_vars, late_vars, disk, embed_vars, chunker_vars, sections_vars,
                   index_vars>>

\* minio_client.object_exists: the object is there, or it is not and the
\* operation returns its "Object not found" result
PdfObjectExists ==
    /\ pdf_pc = "object_exists"
    /\ \/ /\ pdf_pc' = "download_file"
          /\ UNCHANGED <<pdf_outcome, disk>>
       \/ /\ pdf_pc' = "returned"
          /\ pdf_outcome' = "not_found"
          /\ disk' = remove_temp_file(local_path, disk)
    /\ UNCHANGED <<core_vars, late_vars, pdf_op, local_path, pdf_calls, embed_vars,
                   chunker_vars, sections_vars, index_vars>>

\* download_file, lines 94-101: NamedTemporaryFile(delete=False) creates
\* the temporary file, named after the call
PdfCreateTempFile ==
    /\ pdf_pc = "download_file"
    /\ disk' = disk \cup {pdf_calls}
    /\ pdf_pc' = "fget_object"
    /\ UNCHANGED <<core_vars, late_vars, pdf_op, local_path, pdf_calls, pdf_outcome,
                   embed_vars, chunker_vars, sections_vars, index_vars>>

\* download_file, lines 103-112: fget_object fills the file and its path
\* is returned to the caller, or it raises and download_file returns None,
\* upon which the caller returns "Failed to download file from MinIO"
PdfFetchObject ==
    /\ pdf_pc = "fget_object"
    /\ \/ /\ local_path' = pdf_calls
          /\ pdf_pc' = "process_pdf"
          /\ UNCHANGED <<pdf_outcome, disk>>
       \/ /\ pdf_pc' = "returned"
          /\ pdf_outcome' = "download_failed"
          /\ disk' = remove_temp_file(local_path, disk)
          /\ UNCHANGED local_path
    /\ UNCHANGED <<core_vars, late_vars, pdf_op, pdf_calls, embed_vars, chunker_vars,
                   sections_vars, index_vars>>

\* process_pdf: extraction fails, yields no chunk, raises, or yields chunks
PdfProcess ==
    /\ pdf_pc = "process_pdf"
    /\ \/ /\ pdf_pc' = "embed_batch"
          /\ UNCHANGED <<pdf_outcome, disk>>
       \/ /\ pdf_pc' = "returned"
          /\ pdf_outcome' \in {"extraction_failed", "no_content", "error"}
          /\ disk' = remove_temp_file(local_path, disk)
    /\ UNCHANGED <<core_vars, late_vars, pdf_op, local_path, pdf_calls, embed_vars,
                   chunker_vars, sections_vars, index_vars>>

\* embed_batch over the chunks: it returns, or it raises and the operation
\* returns the error
PdfEmbed ==
    /\ pdf_pc = "embed_batch"
    /\ \/ /\ pdf_pc' = "store"
          /\ UNCHANGED <<pdf_outcome, disk>>
       \/ /\ pdf_pc' = "returned"
          /\ pdf_outcome' = "error"
          /\ disk' = remove_temp_file(local_path, disk)
    /\ UNCHANGED <<core_vars, late_vars, pdf_op, local_path, pdf_calls, embed_vars,
                   chunker_vars, sections_vars, index_vars>>

\* the ingest's index_document (True or False), or the check's searches
\* and result; then the "finally"
PdfStore ==
    /\ pdf_pc = "store"
    /\ pdf_pc' = "returned"
    /\ pdf_outcome' \in (IF pdf_op = "upload"
                         THEN {"success", "index_failed"}
                         ELSE {"success", "error"})
    /\ disk' = remove_temp_file(local_path, disk)
    /\ UNCHANGED <<core_vars, late_vars, pdf_op, local_path, pdf_calls, embed_vars,
                   chunker_vars, sections_vars, index_vars>>

PdfNext ==
    \/ \E op \in {"upload", "check"} : PdfBegin(op)
    \/ PdfObjectExists
    \/ PdfCreateTempFile
    \/ PdfFetchObject
    \/ PdfProcess
    \/ PdfEmbed
    \/ PdfStore

PdfSpec == PdfInit /\ [][PdfNext]_vars

\* C12: whenever upload_pdf_from_minio or check_pdf_from_minio has
\* returned, on whatever exit path, no temporary file of a download is
\* left on disk.
C12_NoTempFileLeft ==
    pdf_pc = "returned" => disk = {}

----------------------------------------------------------------------------
(* OllamaEmbeddingClient.embed_batch (src/embedding/ollama_embed.py)       *)

\* the embedding vector of a text
Vec(text) == <<"vec", text>>

\* how a POST /api/embed for a batch can end: a reply with "embeddings"
\* (one vector per input), a reply with a single "embedding", a reply with
\* neither key, an error status, a timeout, a connection error
BatchReplies ==
    {"embeddings", "embedding", "malformed", "status", "timeout", "connect"}

\* the failures among them
BatchFailures == {"malformed", "status", "timeout", "connect"}

EmbedInit ==
    /\ CoreIdle
    /\ LateIdle
    /\ PdfIdle
    /\ ChunkerIdle
    /\ SectionsIdle
    /\ IndexIdle
    /\ eb_pc = "loop"
    /\ eb_texts \in SeqUpTo({"a", "b"}, MaxTexts)
    /\ eb_batch_size \in 1..MaxBatchSize
    /\ eb_i = 0
    /\ all_embeddings = <<>>
    /\ eb_failure = "none"
    /\ eb_unretried = FALSE

\* texts[i : i + batch_size]
embed_batch_slice(texts, i, batch_size) ==
    SubSeq(texts, i + 1, Min(i + batch_size, Len(texts)))

\* embed_batch, one round of the loop over the batches: the batch call,
\* and on HTTPStatusError the fallback to embed(text) for each text of
\* the batch, where embed raises at the first text it fails on
\* (failed_at, 0 for none); every other exception leaves embed_batch
EmbedBatchRound ==
    /\ eb_pc = "loop"
    /\ eb_i < Len(eb_texts)
    /\ LET batch == embed_batch_slice(eb_texts, eb_i, eb_batch_size)
       IN  \E reply \in BatchReplies :
              /\ eb_failure' = IF reply \in BatchFailures THEN reply
                               ELSE eb_failure
              /\ eb_unretried' =
                    (eb_unretried
                        \/ reply \in {"malformed", "timeout", "connect"})
              /\ CASE reply = "embeddings" ->
                        /\ all_embeddings' = all_embeddings
                              \o [k \in 1..Len(batch) |-> Vec(batch[k])]
                        /\ eb_i' = eb_i + eb_batch_size
                        /\ UNCHANGED eb_pc
                   [] reply = "embedding" ->
                        /\ all_embeddings' = Append(all_embeddings, Vec(batch))
                        /\ eb_i' = eb_i + eb_batch_size
                        /\ UNCHANGED eb_pc
                   [] reply = "status" ->
                        \E failed_at \in 0..Len(batch) :
                           IF failed_at = 0
                           THEN /\ all_embeddings' = all_embeddings
                                      \o [k \in 1..Len(batch) |->
                                             Vec(batch[k])]
                                /\ eb_i' = eb_i + eb_batch_size
                                /\ UNCHANGED eb_pc
                           ELSE /\ all_embeddings' = all_embeddings
                                      \o [k \in 1..(failed_at - 1) |->
                                             Vec(batch[k])]
                                /\ eb_pc' = "raised"
                                /\ UNCHANGED eb_i
                   [] OTHER ->
                        /\ eb_pc' = "raised"
                        /\ UNCHANGED <<all_embeddings, eb_i>>
    /\ UNCHANGED <<core_vars, late_vars, eb_texts, eb_batch_size, pdf_vars,
                   chunker_vars, sections_vars, index_vars>>

\* embed_batch, "return all_embeddings"
EmbedReturn ==
    /\ eb_pc = "loop"
    /\ eb_i >= Len(eb_texts)
    /\ eb_pc' = "returned"
    /\ UNCHANGED <<core_vars, late_vars, eb_texts, eb_batch_size, eb_i, all_embeddings,
                   eb_failure, eb_unretried, pdf_vars, chunker_vars,
                   sections_vars, index_vars>>

EmbedNext ==
    \/ EmbedBatchRound
    \/ EmbedReturn

EmbedSpec == EmbedInit /\ [][EmbedNext]_vars

\* C13: a batch call that fails, whatever the failure, is retried one
\* text at a time; and when embed_batch returns after a failed batch call,
\* its output is one vector per input text, in input order.
C13_FailedBatchRetried ==
    /\ ~eb_unretried
    /\ (eb_pc = "returned" /\ eb_failure # "none") =>
          all_embeddings = [k \in 1..Len(eb_texts) |-> Vec(eb_texts[k])]

----------------------------------------------------------------------------
(* TextChunker (src/core/chunker.py).  The words of the normalized text    *)
(* are numbered 1..n; the text of a chunk is the sequence of its words.    *)

\* Python's "a or b" on an optional integer: None and 0 give b
Or(a, b) == IF a # 0 THEN a ELSE b

\* TextChunker.__init__: every argument left out (0 stands for None, and
\* counts as left out) is taken from the settings
TextChunker(chunk_size, chunk_overlap, min_chunk_size, settings) ==
    [chunk_size |-> Or(chunk_size, settings.chunk_size),
     chunk_overlap |-> Or(chunk_overlap, settings.chunk_overlap),
     min_chunk_size |-> Or(min_chunk_size, settings.min_chunk_size)]

\* the chunking settings an environment can give
ChunkSettings ==
    [chunk_size : 1..MaxChunkSize, chunk_overlap : 0..MaxChunkSize,
     min_chunk_size : 0..MaxChunkSize]

\* the chunkers that can be constructed
Chunkers ==
    {TextChunker(a, b, c, settings) :
        a \in 0..MaxChunkSize, b \in 0..MaxChunkSize, c \in 0..MaxChunkSize,
        settings \in ChunkSettings}

\* an index of a Python slice of a list of n elements: negative indices
\* count from the end, and every index is clamped to 0..n
slice_index(n, a) == IF a < 0 THEN Max(n + a, 0) ELSE Min(a, n)

\* words[a:b] for the words 1..n
words_slice(n, a, b) ==
    LET lo == slice_index(n, a)
        hi == slice_index(n, b)
    IN  [k \in 1..Max(hi - lo, 0) |-> lo + k]

\* TextChunk(text, position, word_count)
TextChunk(text, position) ==
    [text |-> text, position |-> position, word_count |-> Len(text)]

\* the test on a window that never finds it too small
window_too_small_never(chunk_words, chunks, cfg) == FALSE

\* chunk_text, lines 78-81: a window shorter than min_chunk_size ends the
\* loop when a chunk exists already
window_too_small(chunk_words, chunks, cfg) ==
    Len(chunk_words) < cfg.min_chunk_size /\ chunks # <<>>

\* chunk_text, line 101: the window moves by chunk_size - overlap words
next_word_index(index, cfg) == index + cfg.chunk_size - cfg.chunk_overlap

\* the loop of chunk_text from word_index on, for a chunker whose loop ends
RECURSIVE chunk_loop(_, _, _, _)
chunk_loop(n, cfg, index, chunks) ==
    IF index >= n THEN chunks
    ELSE LET chunk_words == words_slice(n, index, index + cfg.chunk_size)
         IN  IF window_too_small(chunk_words, chunks, cfg) THEN chunks
             ELSE chunk_loop(n, cfg, next_word_index(index, cfg),
                             Append(chunks,
                                    TextChunk(chunk_words, Len(chunks))))

\* TextChunker.chunk_text on a text of n words, for a chunker whose loop
\* ends (chunk_overlap < chunk_size)
chunk_text(n, cfg) ==
    IF n = 0 THEN <<>>
    ELSE IF n <= cfg.chunk_size
         THEN <<TextChunk([k \in 1..n |-> k], 0)>>
         ELSE chunk_loop(n, cfg, 0, <<>>)

ChunkInit ==
    /\ CoreIdle
    /\ LateIdle
    /\ PdfIdle
    /\ EmbedIdle
    /\ SectionsIdle
    /\ IndexIdle
    /\ ck_pc = "call"
    /\ chunker \in Chunkers
    /\ ck_words \in 0..MaxWords
    /\ word_index = 0
    /\ ck_chunks = <<>>
    /\ ck_position = 0

\* chunk_text, lines 50-72: no chunk for an empty text, one chunk for a
\* text of at most chunk_size words, else the loop is entered
ChunkCall ==
    /\ ck_pc = "call"
    /\ IF ck_words = 0
       THEN ck_pc' = "returned" /\ ck_chunks' = <<>>
       ELSE IF ck_words <= chunker.chunk_size
            THEN /\ ck_pc' = "returned"
                 /\ ck_chunks' = <<TextChunk([k \in 1..ck_words |-> k], 0)>>
            ELSE ck_pc' = "loop" /\ ck_chunks' = <<>>
    /\ word_index' = 0
    /\ ck_position' = 0
    /\ UNCHANGED <<core_vars, late_vars, chunker, ck_words, pdf_vars, embed_vars,
                   sections_vars, index_vars>>

\* the word_index at and below which every window is empty
LowestIndex(n, cfg) == 0 - (n + cfg.chunk_size)

\* chunk_text, one round of the loop that appends the window as a chunk;
\* of the chunks only the first MaxIters are kept, and a word_index below
\* LowestIndex is kept as LowestIndex
ChunkWindow ==
    /\ ck_pc = "loop"
    /\ word_index < ck_words
    /\ LET chunk_words == words_slice(ck_words, word_index,
                                      word_index + chunker.chunk_size)
       IN  /\ ~window_too_small(chunk_words, ck_chunks, chunker)
           /\ ck_chunks' = IF Len(ck_chunks) < MaxIters
                           THEN Append(ck_chunks,
                                       TextChunk(chunk_words, Len(ck_chunks)))
                           ELSE ck_chunks
    /\ ck_position' = (ck_position + 1) % (MaxIters + 1)
    /\ word_index' = Max(next_word_index(word_index, chunker),
                         LowestIndex(ck_words, chunker))
    /\ UNCHANGED <<core_vars, late_vars, ck_pc, chunker, ck_words, pdf_vars, embed_vars,
                   sections_vars, index_vars>>

\* chunk_text, the "break" on a window that is too small
ChunkBreak ==
    /\ ck_pc = "loop"
    /\ word_index < ck_words
    /\ window_too_small(words_slice(ck_words, word_index,
                                    word_index + chunker.chunk_size),
                        ck_chunks, chunker)
    /\ ck_pc' = "returned"
    /\ UNCHANGED <<core_vars, late_vars, chunker, ck_words, word_index, ck_chunks,
                   ck_position,
                   pdf_vars, embed_vars, sections_vars, index_vars>>

\* chunk_text, the loop ends with word_index past the last word
ChunkReturn ==
    /\ ck_pc = "loop"
    /\ word_index >= ck_words
    /\ ck_pc' = "returned"
    /\ UNCHANGED <<core_vars, late_vars, chunker, ck_words, word_index, ck_chunks,
                   ck_position,
                   pdf_vars, embed_vars, sections_vars, index_vars>>

ChunkNext ==
    \/ ChunkCall
    \/ ChunkWindow
    \/ ChunkBreak
    \/ ChunkReturn

ChunkSpec == ChunkInit /\ [][ChunkNext]_vars

\* C15: every chunk chunk_text returns has at most chunk_size words, and
\* when it returns more than one chunk every chunk has at least
\* min_chunk_size words.
C15_ChunkSizeBounds ==
    ck_pc = "returned" =>
        /\ \A k \in 1..Len(ck_chunks) :
              /\ ck_chunks[k].word_count = Len(ck_chunks[k].text)
              /\ ck_chunks[k].word_count <= chunker.chunk_size
        /\ Len(ck_chunks) > 1 =>
              \A k \in 1..Len(ck_chunks) :
                 ck_chunks[k].word_count >= chunker.min_chunk_size

\* several chunks returned, the last of them a partial window that was
\* kept, after the loop was left on a window that was too small
C15_Witness ==
    /\ ck_pc = "returned"
    /\ Len(ck_chunks) > 1
    /\ ck_chunks[Len(ck_chunks)].word_count < chunker.chunk_size
    /\ ck_chunks[Len(ck_chunks)].word_count = chunker.min_chunk_size
    /\ word_index < ck_words

\* the last k elements of a sequence
LastWords(seq, k) == SubSeq(seq, Len(seq) - k + 1, Len(seq))

\* C16: when chunk_text returns more than one chunk, the last
\* chunk_overlap words of every chunk are the first chunk_overlap words
\* of the chunk after it, the final pair included (stated here for the
\* chunkers whose overlap is smaller than their chunk size).
C16_ExactOverlap ==
    (/\ ck_pc = "returned"
     /\ Len(ck_chunks) > 1
     /\ chunker.chunk_overlap < chunker.chunk_size) =>
        \A k \in 1..(Len(ck_chunks) - 1) :
           /\ Len(ck_chunks[k].text) >= chunker.chunk_overlap
           /\ Len(ck_chunks[k + 1].text) >= chunker.chunk_overlap
           /\ LastWords(ck_chunks[k].text, chunker.chunk_overlap)
                 = SubSeq(ck_chunks[k + 1].text, 1, chunker.chunk_overlap)

----------------------------------------------------------------------------
(* The chunks an ingest persists: upload_document chunks the content with  *)
(* chunk_text, the PDF ingest turns the sections of the document into      *)
(* chunks with _sections_to_chunks.  A section is known by its word count. *)

\* the chunks of one section, numbered from chunk_position on: the section
\* itself if it has at most chunk_size words, else its chunk_text chunks
section_chunks(section, word_count, chunk_position, cfg) ==
    IF word_count <= cfg.chunk_size
    THEN <<[position |-> chunk_position, word_count |-> word_count,
            section |-> section]>>
    ELSE LET text_chunks == chunk_text(word_count, cfg)
         IN  [i \in 1..Len(text_chunks) |->
                [position |-> chunk_position + i - 1,
                 word_count |-> text_chunks[i].word_count,
                 section |-> section]]

\* PdfProcessor._sections_to_chunks, the loop over the sections from the
\* k-th on
RECURSIVE sections_loop(_, _, _, _)
sections_loop(sections, k, chunks, cfg) ==
    IF k > Len(sections) THEN chunks
    ELSE sections_loop(sections, k + 1,
                       chunks \o section_chunks(k, sections[k], Len(chunks),
                                                cfg),
                       cfg)

\* PdfProcessor._sections_to_chunks
sections_to_chunks(sections, cfg) == sections_loop(sections, 1, <<>>, cfg)

\* upload_document, lines 94-120: the DocumentChunks made of the chunks of
\* chunk_text(content), content having n words
document_chunks(n, cfg) ==
    LET chunks == chunk_text(n, cfg)
    IN  [i \in 1..Len(chunks) |->
           [position |-> chunks[i].position,
            word_count |-> chunks[i].word_count, section |-> 1]]

RECURSIVE SumSeq(_)
SumSeq(seq) ==
    IF seq = <<>> THEN 0
    ELSE seq[Len(seq)] + SumSeq(SubSeq(seq, 1, Len(seq) - 1))

\* the documents ingested: a text of up to MaxWords words, or a PDF of up
\* to MaxSections sections of 1 to MaxWords words each (_create_section
\* makes no section of an empty content)
IngestInit ==
    /\ CoreIdle
    /\ LateIdle
    /\ PdfIdle
    /\ EmbedIdle
    /\ IndexIdle
    /\ ck_pc = "idle"
    /\ chunker \in {c \in Chunkers : c.chunk_overlap < c.chunk_size}
    /\ ck_words = 0
    /\ word_index = 0
    /\ ck_chunks = <<>>
    /\ ck_position = 0
    /\ ps_pc = "call"
    /\ ps_kind \in {"text", "pdf"}
    /\ ps_sections \in IF ps_kind = "text"
                       THEN {<<n>> : n \in 0..MaxWords}
                       ELSE SeqUpTo(1..MaxWords, MaxSections)
    /\ ps_chunks = <<>>

\* upload_document: the chunks handed to index_document
UploadTextChunks ==
    /\ ps_pc = "call"
    /\ ps_kind = "text"
    /\ ps_chunks' = document_chunks(ps_sections[1], chunker)
    /\ ps_pc' = "persisted"
    /\ UNCHANGED <<core_vars, late_vars, ps_kind, ps_sections, pdf_vars, embed_vars,
                   chunker_vars, index_vars>>

\* upload_pdf_from_minio: the chunks handed to index_document
UploadPdfChunks ==
    /\ ps_pc = "call"
    /\ ps_kind = "pdf"
    /\ ps_chunks' = sections_to_chunks(ps_sections, chunker)
    /\ ps_pc' = "persisted"
    /\ UNCHANGED <<core_vars, late_vars, ps_kind, ps_sections, pdf_vars, embed_vars,
                   chunker_vars, index_vars>>

IngestNext ==
    \/ UploadTextChunks
    \/ UploadPdfChunks

IngestSpec == IngestInit /\ [][IngestNext]_vars

\* C17: every chunk an ingest persists has at least min_chunk_size words,
\* except possibly the first chunk of a document whose whole content has
\* fewer words than that (stated here for the chunkers whose minimum
\* does not exceed their chunk size).
C17_PersistedChunkMinWords ==
    (/\ ps_pc = "persisted"
     /\ chunker.min_chunk_size <= chunker.chunk_size) =>
        \A k \in 1..Len(ps_chunks) :
           \/ ps_chunks[k].word_count >= chunker.min_chunk_size
           \/ k = 1 /\ SumSeq(ps_sections) < chunker.min_chunk_size

----------------------------------------------------------------------------
(* ElasticsearchClient.create_index and _create_chunks_index.  An index    *)
(* is absent, exists empty, or exists with data.                           *)

IndexStates == {"absent", "empty", "data"}

\* any prior state of the two indices
IndexInit ==
    /\ CoreIdle
    /\ LateIdle
    /\ PdfIdle
    /\ EmbedIdle
    /\ ChunkerIdle
    /\ SectionsIdle
    /\ ix_pc = "idle"
    /\ ix_force = FALSE
    /\ docs_index \in IndexStates
    /\ chunks_index \in IndexStates
    /\ ix_result = "none"
    /\ ix_calls = 0

\* create_index(force) is called
IxCall(force) ==
    /\ ix_pc \in {"idle", "returned"}
    /\ ix_calls < MaxIndexCalls
    /\ ix_calls' = ix_calls + 1
    /\ ix_force' = force
    /\ ix_result' = "none"
    /\ ix_pc' = "docs_exists"
    /\ UNCHANGED <<core_vars, late_vars, docs_index, chunks_index, pdf_vars, embed_vars,
                   chunker_vars, sections_vars>>

\* create_index, lines 89-95: an existing documents index is deleted under
\* force, and otherwise create_index returns True at once
IxDocsExists ==
    /\ ix_pc = "docs_exists"
    /\ IF docs_index # "absent"
       THEN IF ix_force
            THEN /\ docs_index' = "absent"
                 /\ ix_pc' = "create_docs"
                 /\ UNCHANGED ix_result
            ELSE /\ ix_result' = "True"
                 /\ ix_pc' = "returned"
                 /\ UNCHANGED docs_index
       ELSE /\ ix_pc' = "create_docs"
            /\ UNCHANGED <<docs_index, ix_result>>
    /\ UNCHANGED <<core_vars, late_vars, ix_force, chunks_index, ix_calls, pdf_vars,
                   embed_vars, chunker_vars, sections_vars>>

\* create_index, lines 121-123 and 128-130: indices.create of the
\* documents index succeeds, or raises BadRequestError and create_index
\* returns False
IxCreateDocs ==
    /\ ix_pc = "create_docs"
    /\ \/ /\ docs_index' = "empty"
          /\ ix_pc' = "chunks_exists"
          /\ UNCHANGED ix_result
       \/ /\ ix_result' = "False"
          /\ ix_pc' = "returned"
          /\ UNCHANGED docs_index
    /\ UNCHANGED <<core_vars, late_vars, ix_force, chunks_index, ix_calls, pdf_vars,
                   embed_vars, chunker_vars, sections_vars>>

\* _create_chunks_index, lines 136-140: an existing chunks index is deleted
\* under force, and otherwise it returns True and so does create_index
IxChunksExists ==
    /\ ix_pc = "chunks_exists"
    /\ IF chunks_index # "absent"
       THEN IF ix_force
            THEN /\ chunks_index' = "absent"
                 /\ ix_pc' = "create_chunks"
                 /\ UNCHANGED ix_result
            ELSE /\ ix_result' = "True"
                 /\ ix_pc' = "returned"
                 /\ UNCHANGED chunks_index
       ELSE /\ ix_pc' = "create_chunks"
            /\ UNCHANGED <<chunks_index, ix_result>>
    /\ UNCHANGED <<core_vars, late_vars, ix_force, docs_index, ix_calls, pdf_vars,
                   embed_vars, chunker_vars, sections_vars>>

\* _create_chunks_index, lines 167-173: indices.create of the chunks index
\* succeeds, or raises BadRequestError and _create_chunks_index returns
\* False; create_index, lines 126-127, returns True whatever it returned
IxCreateChunks ==
    /\ ix_pc = "create_chunks"
    /\ \/ chunks_index' = "empty"
       \/ UNCHANGED chunks_index
    /\ ix_result' = "True"
    /\ ix_pc' = "returned"
    /\ UNCHANGED <<core_vars, late_vars, ix_force, docs_index, ix_calls, pdf_vars,
                   embed_vars, chunker_vars, sections_vars>>

\* index_document between two calls of create_index: both indices hold data
IxIngest ==
    /\ ix_pc \in {"idle", "returned"}
    /\ docs_index = "empty"
    /\ chunks_index # "absent"
    /\ docs_index' = "data"
    /\ chunks_index' = "data"
    /\ UNCHANGED <<core_vars, late_vars, ix_pc, ix_force, ix_result, ix_calls, pdf_vars,
                   embed_vars, chunker_vars, sections_vars>>

IndexNext ==
    \/ \E force \in BOOLEAN : IxCall(force)
    \/ IxDocsExists
    \/ IxCreateDocs
    \/ IxChunksExists
    \/ IxCreateChunks
    \/ IxIngest

IndexSpec == IndexInit /\ [][IndexNext]_vars

\* C20: whenever create_index returns success, from any prior state, the
\* documents index and the chunks index both exist, and under force both
\* are empty.
C20_SuccessMeansBothIndices ==
    (ix_pc = "returned" /\ ix_result = "True") =>
        /\ docs_index # "absent"
        /\ chunks_index # "absent"
        /\ ix_force => (docs_index = "empty" /\ chunks_index = "empty")

----------------------------------------------------------------------------
(* The server: start(), the worker threads' first use of the clients, and
   stop() (src/server.py, the client property of each client class) *)

\* the fields of Settings that start() reads for the port
SettingsFields ==
    {"grpc_host", "grpc_port", "grpc_max_workers", "grpc_tls_enabled",
     "grpc_cert_path", "grpc_key_path", "grpc_ca_path"}

\* the client classes that define close(); MinioClient defines none
HasClose ==
    [k \in Clients |-> k \in {"es", "ollama", "analyzer"}]

\* start(), the try block of the TLS branch: whether it reaches
\* add_secure_port; a file that cannot be read and a setting that does not
\* exist both raise
tls_credentials_loaded(key_ok, cert_ok) ==
    /\ key_ok
    /\ cert_ok
    /\ "grpc_require_client_cert" \in SettingsFields

\* start(): the kind of port the server is bound to
bind_port(tls_enabled, key_ok, cert_ok) ==
    IF tls_enabled
    THEN IF tls_credentials_loaded(key_ok, cert_ok)
         THEN "secure"
         ELSE "insecure"
    ELSE "insecure"

\* the server constructed, with the settings and the key and certificate
\* files of this run
ServerInit ==
    /\ CoreIdle
    /\ EarlyIdle
    /\ CallIdle
    /\ UploadIdle
    /\ srv_pc = "constructed"
    /\ grpc_tls_enabled \in BOOLEAN
    /\ key_file \in BOOLEAN
    /\ cert_file \in BOOLEAN
    /\ port = "none"
    /\ instances = [k \in Clients |-> 0]
    /\ client_of = [k \in Clients |-> NoPool]
    /\ pools_created = [k \in Clients |-> 0]
    /\ open_pools = [k \in Clients |-> {}]
    /\ w_pc = [w \in Workers |-> "idle"]
    /\ w_kind = [w \in Workers |-> "es"]
    /\ w_seen_none = [w \in Workers |-> FALSE]
    /\ uses = 0
    /\ metrics_server = "none"
    /\ file_logger = "none"
    /\ stop_outcome = "none"

\* start() up to the servicer: the file logger, the metrics server,
\* setup_elasticsearch (whose health_check makes the main thread build the
\* vector-store pool), and PlagiarismServicer(), which constructs the four
\* client objects in the main thread
ServerSetup ==
    /\ srv_pc = "constructed"
    /\ srv_pc' = "setup"
    /\ file_logger' = "open"
    /\ metrics_server' = "started"
    /\ instances' = [k \in Clients |-> 1]
    /\ pools_created' = [pools_created EXCEPT !["es"] = 1]
    /\ client_of' = [client_of EXCEPT !["es"] = 1]
    /\ open_pools' = [open_pools EXCEPT !["es"] = {1}]
    /\ UNCHANGED <<core_vars, early_vars, call_vars, upload_vars,
                   grpc_tls_enabled, key_file, cert_file, port, w_pc, w_kind,
                   w_seen_none, uses, stop_outcome>>

\* start(): bind the address and start serving
ServerBind ==
    /\ srv_pc = "setup"
    /\ port' = bind_port(grpc_tls_enabled, key_file, cert_file)
    /\ srv_pc' = "serving"
    /\ UNCHANGED <<core_vars, early_vars, call_vars, upload_vars,
                   grpc_tls_enabled, key_file, cert_file, instances,
                   client_of, pools_created, open_pools, w_pc, w_kind,
                   w_seen_none, uses, metrics_server, file_logger,
                   stop_outcome>>

\* the client property, first half: a worker thread serving a request reads
\* "self._client is None"
ClientCheck(w, k) ==
    /\ srv_pc = "serving"
    /\ w_pc[w] = "idle"
    /\ uses < MaxUses
    /\ uses' = uses + 1
    /\ w_pc' = [w_pc EXCEPT ![w] = "checked"]
    /\ w_kind' = [w_kind EXCEPT ![w] = k]
    /\ w_seen_none' = [w_seen_none EXCEPT ![w] = (client_of[k] = NoPool)]
    /\ UNCHANGED <<core_vars, early_vars, call_vars, upload_vars, srv_pc,
                   grpc_tls_enabled, key_file, cert_file, port, instances,
                   client_of, pools_created, open_pools, metrics_server,
                   file_logger, stop_outcome>>

\* the client property, second half: if it read None the thread constructs
\* a pool and stores it in _client; then it returns _client
ClientCreate(w) ==
    LET k == w_kind[w]
        pool == pools_created[k] + 1
    IN  /\ srv_pc = "serving"
        /\ w_pc[w] = "checked"
        /\ w_pc' = [w_pc EXCEPT ![w] = "idle"]
        /\ IF w_seen_none[w]
           THEN /\ pools_created' = [pools_created EXCEPT ![k] = pool]
                /\ client_of' = [client_of EXCEPT ![k] = pool]
                /\ open_pools' = [open_pools EXCEPT ![k] = @ \cup {pool}]
           ELSE UNCHANGED <<pools_created, client_of, open_pools>>
        /\ UNCHANGED <<core_vars, early_vars, call_vars, upload_vars, srv_pc,
                       grpc_tls_enabled, key_file, cert_file, port,
                       instances, w_kind, w_seen_none, uses, metrics_server,
                       file_logger, stop_outcome>>

\* stop(): the clients in the order their close() is called
CloseOrder == <<"es", "ollama", "analyzer", "minio">>

\* close() of one client: closes the pool _client holds and forgets it
close_client(st, k) ==
    IF st.client_of[k] = NoPool
    THEN st
    ELSE [st EXCEPT !.open_pools[k] = @ \ {st.client_of[k]},
                    !.client_of[k] = NoPool]

RECURSIVE close_clients(_, _)
\* stop(): the calls get_..._client().close() from the i-th on; a client
\* class without close() raises and the rest is not run
close_clients(st, i) ==
    IF i > Len(CloseOrder)
    THEN st
    ELSE IF HasClose[CloseOrder[i]]
         THEN close_clients(close_client(st, CloseOrder[i]), i + 1)
         ELSE [st EXCEPT !.raised = TRUE]

\* stop(), called by the signal handler: stops the gRPC server, closes the
\* clients, then stops the metrics server and closes the file logger
ServerStop ==
    LET st == close_clients([client_of |-> client_of,
                             open_pools |-> open_pools,
                             raised |-> FALSE], 1)
    IN  /\ srv_pc = "serving"
        /\ srv_pc' = "stopped"
        /\ client_of' = st.client_of
        /\ open_pools' = st.open_pools
        /\ IF st.raised
           THEN /\ stop_outcome' = "raised"
                /\ UNCHANGED <<metrics_server, file_logger>>
           ELSE /\ stop_outcome' = "returned"
                /\ metrics_server' = "stopped"
                /\ file_logger' = "closed"
        /\ UNCHANGED <<core_vars, early_vars, call_vars, upload_vars,
                       grpc_tls_enabled, key_file, cert_file, port,
                       instances, pools_created, w_pc, w_kind, w_seen_none,
                       uses>>

ServerNext ==
    \/ ServerSetup
    \/ ServerBind
    \/ \E w \in Workers, k \in Clients : ClientCheck(w, k)
    \/ \E w \in Workers : ClientCreate(w)
    \/ ServerStop

ServerSpec == ServerInit /\ [][ServerNext]_vars

\* C21: each process-wide client object and its connection pool is created
\* exactly once, also when several worker threads make their first use of
\* it concurrently: no client ever has a second object or a second pool.
C21_ClientsCreatedOnce ==
    \A k \in Clients : instances[k] <= 1 /\ pools_created[k] <= 1

\* C22: when the server is stopped the shutdown runs to completion: once
\* stop() has ended, every pool of every client is closed, the metrics
\* server is stopped and the file logger is closed.
C22_ShutdownCompletes ==
    srv_pc = "stopped" =>
        /\ stop_outcome = "returned"
        /\ \A k \in Clients : open_pools[k] = {}
        /\ metrics_server = "stopped"
        /\ file_logger = "closed"

\* C30: if TLS is enabled in the configuration the server never listens on
\* an insecure port.
C30_TlsNeverInsecure ==
    grpc_tls_enabled => port # "insecure"

----------------------------------------------------------------------------
(* normalize_text (src/core/chunker.py): a text is a sequence of
   characters, one character of each class the function tells apart *)

\* "a": a printable character; " ": the space; "TAB": a whitespace character
\* other than the space (\t, \n, \r, ...); "NUL": a control character that is
\* not whitespace (\x00-\x08, \x0e-\x1b, \x7f-\x84, \x86-\x9f)
Chars == {"a", " ", "TAB", "NUL"}

\* what \s matches
Whitespace == {" ", "TAB"}

\* what [\x00-\x08\x0b\x0c\x0e-\x1f\x7f-\x9f] still finds after the
\* whitespace was replaced
Control == {"NUL"}

Texts == UNION {[1..n -> Chars] : n \in 0..MaxChars}

RECURSIVE collapse_whitespace(_)
\* re.sub(r"\s+", " ", text): every run of whitespace becomes one space
collapse_whitespace(text) ==
    IF text = <<>>
    THEN <<>>
    ELSE IF Head(text) \in Whitespace
         THEN IF Len(text) > 1 /\ text[2] \in Whitespace
              THEN collapse_whitespace(Tail(text))
              ELSE <<" ">> \o collapse_whitespace(Tail(text))
         ELSE <<Head(text)>> \o collapse_whitespace(Tail(text))

\* re.sub(r"[\x00-\x08...]", "", text): the control characters are deleted
remove_control(text) ==
    SelectSeq(text, LAMBDA c : c \notin Control)

RECURSIVE lstrip(_)
lstrip(text) ==
    IF text # <<>> /\ Head(text) \in Whitespace
    THEN lstrip(Tail(text))
    ELSE text

RECURSIVE rstrip(_)
rstrip(text) ==
    IF text # <<>> /\ text[Len(text)] \in Whitespace
    THEN rstrip(SubSeq(text, 1, Len(text) - 1))
    ELSE text

\* str.strip()
strip(text) == rstrip(lstrip(text))

\* TextChunker.normalize_text
normalize_text(text) ==
    IF text = <<>>
    THEN <<>>
    ELSE strip(remove_control(collapse_whitespace(text)))

NormInit ==
    /\ CoreIdle
    /\ EarlyIdle
    /\ ServerIdle
    /\ UploadIdle
    /\ call_pc = "normalize_text"
    /\ call_args \in Texts
    /\ call_result = <<>>

\* a call of normalize_text returns
NormalizeText ==
    /\ call_pc = "normalize_text"
    /\ call_result' = normalize_text(call_args)
    /\ call_pc' = "normalized"
    /\ UNCHANGED <<core_vars, early_vars, server_vars, upload_vars, call_args>>

NormNext == NormalizeText

NormSpec == NormInit /\ [][NormNext]_vars

\* C23: normalize_text returns a text with no leading or trailing
\* whitespace, no control character and no run of two or more whitespace
\* characters, for every input; and normalizing its result changes nothing.
C23_NormalizedForm ==
    call_pc = "normalized" =>
        /\ call_result # <<>> =>
              /\ Head(call_result) \notin Whitespace
              /\ call_result[Len(call_result)] \notin Whitespace
        /\ \A i \in 1..Len(call_result) : call_result[i] \notin Control
        /\ \A i \in 1..Len(call_result) - 1 :
              ~(call_result[i] \in Whitespace /\ call_result[i + 1] \in Whitespace)
        /\ normalize_text(call_result) = call_result

----------------------------------------------------------------------------
(* The lexical scores computed (src/core/lexical_matcher.py): a text is a
   sequence of tokens, a score an exact fraction *)

\* "x": a lower-case word; "Y": a word in upper case; ",": a character that
\* is neither a word character nor whitespace
LexTokens == {"x", "Y", ","}

LexTexts == UNION {[1..n -> LexTokens] : n \in 0..MaxLexWords}

\* text.lower() of one token
lower(token) == IF token = "Y" THEN "y" ELSE token

\* normalize_for_comparison(text).split(): lower case, the special
\* characters replaced by spaces, the whitespace collapsed; the words left
normalize_for_comparison(text) ==
    LET lowered == [k \in 1..Len(text) |-> lower(text[k])]
    IN  SelectSeq(lowered, LAMBDA token : token # ",")

\* the characters of the normalized text: its words joined by single spaces
normalized_chars(words) ==
    [k \in 1..(IF words = <<>> THEN 0 ELSE 2 * Len(words) - 1) |->
        IF k % 2 = 1 THEN words[(k + 1) \div 2] ELSE " "]

\* set(text.split())
word_set(words) == {words[k] : k \in 1..Len(words)}

Fraction(n, d) == [num |-> n, den |-> d]

FracEq(a, b) == a.num * b.den = b.num * a.den

\* (p / 10) * a + (q / 10) * b
Weighted2(p, a, q, b) ==
    Fraction(p * a.num * b.den + q * b.num * a.den, 10 * a.den * b.den)

\* (p / 10) * a + (q / 10) * b + (r / 10) * c
Weighted3(p, a, q, b, r, c) ==
    Fraction(p * a.num * b.den * c.den + q * b.num * a.den * c.den
                 + r * c.num * a.den * b.den,
             10 * a.den * b.den * c.den)

\* jaccard_similarity of two normalized texts
jaccard_similarity(words1, words2) ==
    IF word_set(words1) = {} \/ word_set(words2) = {}
    THEN Fraction(0, 1)
    ELSE Fraction(Cardinality(word_set(words1) \cap word_set(words2)),
                  Cardinality(word_set(words1) \cup word_set(words2)))

\* ngram_similarity, get_ngrams with n = 2
get_ngrams(words) ==
    {<<words[k], words[k + 1]>> : k \in 1..Len(words) - 1}

\* ngram_similarity of two normalized texts, n = 2
ngram_similarity(words1, words2) ==
    IF get_ngrams(words1) = {} \/ get_ngrams(words2) = {}
    THEN Fraction(0, 1)
    ELSE Fraction(Cardinality(get_ngrams(words1) \cap get_ngrams(words2)),
                  Cardinality(get_ngrams(words1) \cup get_ngrams(words2)))

\* the blocks a[i..i+k-1] = b[j..j+k-1] inside a[alo..ahi] and b[blo..bhi]
matching_blocks(a, alo, ahi, b, blo, bhi) ==
    {blk \in (alo..ahi) \X (blo..bhi) \X (1..Max(ahi - alo + 1, 0)) :
        /\ blk[1] + blk[3] - 1 <= ahi
        /\ blk[2] + blk[3] - 1 <= bhi
        /\ \A t \in 0..blk[3] - 1 : a[blk[1] + t] = b[blk[2] + t]}

\* SequenceMatcher.find_longest_match: a longest block, of those the one
\* that starts earliest in a, and of those the one earliest in b
find_longest_match(a, alo, ahi, b, blo, bhi) ==
    LET blocks == matching_blocks(a, alo, ahi, b, blo, bhi)
    IN  CHOOSE blk \in blocks : \A o \in blocks :
            \/ blk[3] > o[3]
            \/ blk[3] = o[3] /\ blk[1] < o[1]
            \/ blk[3] = o[3] /\ blk[1] = o[1] /\ blk[2] <= o[2]

RECURSIVE matching_size(_, _, _, _, _, _)
\* SequenceMatcher.get_matching_blocks: the total size of the longest block
\* and of the blocks found to its left and to its right
matching_size(a, alo, ahi, b, blo, bhi) ==
    IF matching_blocks(a, alo, ahi, b, blo, bhi) = {}
    THEN 0
    ELSE LET blk == find_longest_match(a, alo, ahi, b, blo, bhi)
         IN  blk[3]
             + matching_size(a, alo, blk[1] - 1, b, blo, blk[2] - 1)
             + matching_size(a, blk[1] + blk[3], ahi, b, blk[2] + blk[3], bhi)

\* SequenceMatcher(None, a, b).ratio() of two non-empty normalized texts
SequenceRatio(words1, words2) ==
    LET a == normalized_chars(words1)
        b == normalized_chars(words2)
    IN  Fraction(2 * matching_size(a, 1, Len(a), b, 1, Len(b)),
                 Len(a) + Len(b))

\* calculate_lexical_similarity
calculate_lexical_similarity(text1, text2) ==
    LET words1 == normalize_for_comparison(text1)
        words2 == normalize_for_comparison(text2)
    IN  IF words1 = <<>> \/ words2 = <<>>
        THEN Fraction(0, 1)
        ELSE Weighted3(3, jaccard_similarity(words1, words2),
                       4, SequenceRatio(words1, words2),
                       3, ngram_similarity(words1, words2))

\* the asymmetric branch, lines 129-140
containment_score(input_words, matched_words) ==
    Weighted2(6, Fraction(Cardinality(word_set(input_words)
                                        \cap word_set(matched_words)),
                          Cardinality(word_set(matched_words))),
              4, SequenceRatio(input_words, matched_words))

\* calculate_asymmetric_lexical_similarity: len_ratio compares the numbers
\* of distinct words
calculate_asymmetric_lexical_similarity(input_text, matched_text) ==
    LET input_normalized == normalize_for_comparison(input_text)
        matched_normalized == normalize_for_comparison(matched_text)
        input_words == word_set(input_normalized)
        matched_words == word_set(matched_normalized)
    IN  IF input_normalized = <<>> \/ matched_normalized = <<>>
        THEN Fraction(0, 1)
        ELSE IF 10 * Cardinality(matched_words) > 7 * Cardinality(input_words)
             THEN calculate_lexical_similarity(input_text, matched_text)
             ELSE containment_score(input_normalized, matched_normalized)

LexInit ==
    /\ CoreIdle
    /\ EarlyIdle
    /\ ServerIdle
    /\ UploadIdle
    /\ call_pc = "lexical"
    /\ call_args \in LexTexts \X LexTexts
    /\ call_result = <<>>

\* a call of calculate_asymmetric_lexical_similarity(input, matched) returns
LexicalSimilarity ==
    /\ call_pc = "lexical"
    /\ call_result' =
           calculate_asymmetric_lexical_similarity(call_args[1], call_args[2])
    /\ call_pc' = "lexical_scored"
    /\ UNCHANGED <<core_vars, early_vars, server_vars, upload_vars, call_args>>

LexNext == LexicalSimilarity

LexSpec == LexInit /\ [][LexNext]_vars

\* C24: with r = |matched| / |input| in words of the normalized texts, the
\* asymmetric lexical score of two non-empty texts is the symmetric score
\* 0.30 Jaccard + 0.40 SequenceRatio + 0.30 NgramJaccard when r > 0.7, and
\* 0.6 containment + 0.4 SequenceRatio otherwise, the containment being the
\* share of the matched text's distinct words found in the input.
C24_AsymmetricByWordCount ==
    call_pc = "lexical_scored" =>
        LET input_words == normalize_for_comparison(call_args[1])
            matched_words == normalize_for_comparison(call_args[2])
        IN  (input_words # <<>> /\ matched_words # <<>>) =>
               IF 10 * Len(matched_words) > 7 * Len(input_words)
               THEN FracEq(call_result,
                           calculate_lexical_similarity(call_args[1],
                                                        call_args[2]))
               ELSE FracEq(call_result,
                           containment_score(input_words, matched_words))

----------------------------------------------------------------------------
(* Section grouping (src/core/pdf_processor.py): an element is its type and
   its text, str(el).strip() *)

TITLE_TYPES == {"Title", "Header"}

CONTENT_TYPES == {"NarrativeText", "ListItem"}

SKIP_TYPES == {"Footer"}

\* "": a text that is empty once stripped; "NUL": a text of control
\* characters only, which normalize_text empties; "a", "b": one word each
ElementTexts == {"", "NUL", "a", "b"}

Elements ==
    [type : TITLE_TYPES \cup CONTENT_TYPES \cup SKIP_TYPES, text : ElementTexts]

ElementStreams == UNION {[1..n -> Elements] : n \in 0..MaxElements}

NoSection == [section_title |-> "None"]

\* _create_section, lines 267-274: the most common type, the first of them
\* where several are as common
primary_type(element_types) ==
    LET count(t) == Cardinality({k \in 1..Len(element_types) :
                                    element_types[k] = t})
        first == CHOOSE k \in 1..Len(element_types) :
                    /\ \A j \in 1..Len(element_types) :
                          count(element_types[j]) <= count(element_types[k])
                    /\ \A j \in 1..(k - 1) :
                          count(element_types[j]) < count(element_types[k])
    IN  IF element_types = <<>> THEN "Mixed" ELSE element_types[first]

\* _create_section: the parts joined and normalized; None for no content
create_section(title, content_parts, element_types, position) ==
    LET content == SelectSeq(content_parts, LAMBDA part : part # "NUL")
    IN  IF content = <<>>
        THEN NoSection
        ELSE [section_title |-> title,
              content |-> content,
              element_type |-> primary_type(element_types),
              position |-> position,
              word_count |-> Len(content)]

\* _group_into_sections, lines 215-224 and 239-247: save the section being
\* built if it has content
flush_section(st) ==
    IF st.current_content = <<>>
    THEN st
    ELSE LET section == create_section(st.current_title, st.current_content,
                                       st.current_types, st.position)
         IN  IF section = NoSection
             THEN st
             ELSE [st EXCEPT !.sections = Append(@, section),
                             !.position = @ + 1]

\* the loop body of _group_into_sections with the title's flush keeping
\* the content collected so far
group_element_keeping(st, el) ==
    IF el.type \in SKIP_TYPES
    THEN st
    ELSE IF el.type \in TITLE_TYPES
         THEN [flush_section(st) EXCEPT
                  !.current_title = IF el.text = "" THEN "Untitled Section"
                                    ELSE el.text]
         ELSE IF el.type \in CONTENT_TYPES /\ el.text # ""
              THEN [st EXCEPT !.current_content = Append(@, el.text),
                              !.current_types = Append(@, el.type)]
              ELSE st

\* the loop body of _group_into_sections, lines 205-236
group_element(st, el) ==
    IF el.type \in SKIP_TYPES
    THEN st
    ELSE IF el.type \in TITLE_TYPES
         THEN [flush_section(st) EXCEPT
                  !.current_title = IF el.text = "" THEN "Untitled Section"
                                    ELSE el.text,
                  !.current_content = <<>>,
                  !.current_types = <<>>]
         ELSE IF el.type \in CONTENT_TYPES /\ el.text # ""
              THEN [st EXCEPT !.current_content = Append(@, el.text),
                              !.current_types = Append(@, el.type)]
              ELSE st

RECURSIVE group_loop(_, _, _)
\* the for loop of _group_into_sections from the i-th element on
group_loop(st, elements, i) ==
    IF i > Len(elements)
    THEN st
    ELSE group_loop(group_element(st, elements[i]), elements, i + 1)

\* PdfProcessor._group_into_sections
group_into_sections(elements) ==
    flush_section(group_loop([sections |-> <<>>,
                              current_title |-> "Introduction",
                              current_content |-> <<>>,
                              current_types |-> <<>>,
                              position |-> 0], elements, 1)).sections

GroupInit ==
    /\ CoreIdle
    /\ EarlyIdle
    /\ ServerIdle
    /\ UploadIdle
    /\ call_pc = "group"
    /\ call_args \in ElementStreams
    /\ call_result = <<>>

\* a call of _group_into_sections returns
GroupIntoSections ==
    /\ call_pc = "group"
    /\ call_result' = group_into_sections(call_args)
    /\ call_pc' = "grouped"
    /\ UNCHANGED <<core_vars, early_vars, server_vars, upload_vars, call_args>>

GroupNext == GroupIntoSections

GroupSpec == GroupInit /\ [][GroupNext]_vars

\* the content elements whose text survives normalization
ContentElements(elements) ==
    {i \in 1..Len(elements) :
        elements[i].type \in CONTENT_TYPES /\ elements[i].text \notin {"", "NUL"}}

\* the latest Title/Header before element i, 0 for none
TitleBefore(elements, i) ==
    LET titles == {j \in 1..(i - 1) : elements[j].type \in TITLE_TYPES}
    IN  IF titles = {} THEN 0
        ELSE CHOOSE j \in titles : \A o \in titles : o <= j

RECURSIVE Ascending(_)
\* a set of numbers as an ascending sequence
Ascending(S) ==
    IF S = {} THEN <<>>
    ELSE LET least == CHOOSE x \in S : \A y \in S : x <= y
         IN  <<least>> \o Ascending(S \ {least})

\* the sections the claim describes: one per Title/Header (or stream start)
\* that content follows before the next Title/Header, holding that
\* content in reading order; a Title/Header without text opens a section
\* titled untitled
DescribedSections(elements, untitled) ==
    LET openers == Ascending({TitleBefore(elements, i) :
                                 i \in ContentElements(elements)})
        members(j) == Ascending({i \in ContentElements(elements) :
                                    TitleBefore(elements, i) = j})
    IN  [n \in 1..Len(openers) |->
            [section_title |-> IF openers[n] = 0 THEN "Introduction"
                               ELSE IF elements[openers[n]].text = ""
                                    THEN untitled
                                    ELSE elements[openers[n]].text,
             content |-> [k \in 1..Len(members(openers[n])) |->
                             elements[members(openers[n])[k]].text],
             position |-> n - 1]]

\* the sections returned, without their element type and word count
ReturnedSections ==
    [n \in 1..Len(call_result) |->
        [section_title |-> call_result[n].section_title,
         content |-> call_result[n].content,
         position |-> call_result[n].position]]

----------------------------------------------------------------------------
(* Coverage and termination of chunk_text *)

\* the words of the text found in some chunk
CoveredWords ==
    UNION {{ck_chunks[k].text[j] : j \in 1..Len(ck_chunks[k].text)} :
              k \in 1..Len(ck_chunks)}

\* C26: for every text and every chunker with chunk_overlap < chunk_size
\* (stated here for min_chunk_size <= chunk_size), every word of the
\* normalized text is in at least one chunk chunk_text returns.
C26_EveryWordInAChunk ==
    (/\ ck_pc = "returned"
     /\ chunker.chunk_overlap < chunker.chunk_size
     /\ chunker.min_chunk_size <= chunker.chunk_size) =>
        \A w \in 1..ck_words : w \in CoveredWords

\* chunk_text runs in the thread that called it, which keeps taking its
\* steps: a step that can be taken is taken
ChunkFairSpec == ChunkInit /\ [][ChunkNext]_vars /\ WF_vars(ChunkNext)

\* C27: chunk_text terminates for every text and every chunker that can be
\* constructed, an overlap equal to or larger than chunk_size and an
\* overlap passed as 0 included: every call returns.
C27_ChunkTextTerminates == <>(ck_pc = "returned")

----------------------------------------------------------------------------
(* An ingest from its call to its return: upload_document and
   upload_pdf_from_minio (src/core/document_manager.py), which both end in
   index_document (src/storage/elasticsearch.py); every call to the
   embedder and to the engine may raise *)

UploadInit ==
    /\ CoreIdle
    /\ EarlyIdle
    /\ ServerIdle
    /\ CallIdle
    /\ UploadIdle

\* upload_document / upload_pdf_from_minio up to index_document: no chunk
\* (content too short, or a PDF that gave none) returns success=False, and
\* so does an exception of the embedder
UploadBegin(kind, d, n, embedded) ==
    /\ up_pc \in {"idle", "returned"}
    /\ up_calls < MaxUploads
    /\ up_calls' = up_calls + 1
    /\ up_doc' = [kind |-> kind, document_id |-> d, chunks |-> n]
    /\ up_before' = [docs |-> es_docs, chunks |-> es_chunks]
    /\ up_written' = 0
    /\ IF n = 0 \/ ~embedded
       THEN up_pc' = "returned" /\ up_result' = "False"
       ELSE up_pc' = "index_doc" /\ up_result' = "none"
    /\ UNCHANGED <<core_vars, early_vars, server_vars, call_vars>>

\* index_document, lines 192-196: client.index of the document body; an
\* exception makes index_document return False, and the ingest with it
UploadIndexDoc(indexed) ==
    /\ up_pc = "index_doc"
    /\ IF indexed
       THEN /\ es_docs' = [es_docs EXCEPT ![up_doc.document_id] = up_doc.chunks]
            /\ up_pc' = "index_chunk"
            /\ UNCHANGED up_result
       ELSE /\ up_pc' = "returned"
            /\ up_result' = "False"
            /\ UNCHANGED es_docs
    /\ UNCHANGED <<es_chunks, es_visible, check_vars, dedup_vars, ops_vars,
                   early_vars, server_vars, call_vars, up_doc, up_before,
                   up_written, up_calls>>

\* index_document, lines 199-216: client.index of the next chunk
UploadIndexChunk(indexed) ==
    /\ up_pc = "index_chunk"
    /\ IF indexed
       THEN /\ es_chunks' = PutChunk(es_chunks,
                                     chunk_body(up_doc.document_id, up_written))
            /\ up_written' = up_written + 1
            /\ up_pc' = IF up_written + 1 = up_doc.chunks THEN "refresh"
                        ELSE "index_chunk"
            /\ UNCHANGED up_result
       ELSE /\ up_pc' = "returned"
            /\ up_result' = "False"
            /\ UNCHANGED <<es_chunks, up_written>>
    /\ UNCHANGED <<es_docs, es_visible, check_vars, dedup_vars, ops_vars,
                   early_vars, server_vars, call_vars, up_doc, up_before,
                   up_calls>>

\* index_document, lines 219-225: the two refresh calls and return True,
\* which the ingest returns as success
UploadRefresh(refreshed) ==
    /\ up_pc = "refresh"
    /\ up_pc' = "returned"
    /\ IF refreshed
       THEN es_visible' = es_chunks /\ up_result' = "True"
       ELSE up_result' = "False" /\ UNCHANGED es_visible
    /\ UNCHANGED <<es_docs, es_chunks, check_vars, dedup_vars, ops_vars,
                   early_vars, server_vars, call_vars, up_doc, up_before,
                   up_written, up_calls>>

UploadNext ==
    \/ \E kind \in {"text", "pdf"}, d \in Docs, n \in 0..MaxDocChunks,
          embedded \in BOOLEAN : UploadBegin(kind, d, n, embedded)
    \/ \E indexed \in BOOLEAN : UploadIndexDoc(indexed)
    \/ \E indexed \in BOOLEAN : UploadIndexChunk(indexed)
    \/ \E refreshed \in BOOLEAN : UploadRefresh(refreshed)

UploadSpec == UploadInit /\ [][UploadNext]_vars

\* C28: if an ingest returns success=false the store contains no document
\* and no chunk written by that call: both indices are exactly as they were
\* before the call.
C28_FailedIngestWritesNothing ==
    (up_pc = "returned" /\ up_result = "False") =>
        /\ es_docs = up_before.docs
        /\ es_chunks = up_before.chunks

----------------------------------------------------------------------------
(* The severity of a check in the arithmetic the code runs in (steps 3 and 4
   of check_plagiarism, src/core/detector.py).  Scores and percentages are
   Python floats: binary floating point, every operation rounded to the
   nearest value with the significand's number of bits, ties to even.  The
   model keeps that arithmetic with a significand of MantissaBits bits; a
   float is written as an integer number of units of 1 / FloatUnit. *)

RECURSIVE Pow2(_)
Pow2(k) == IF k = 0 THEN 1 ELSE 2 * Pow2(k - 1)

FloatUnit == Pow2(MantissaBits + 2)

\* the spacing, in units, of the floats around q units
float_spacing(q) ==
    Pow2(CHOOSE k \in 0..(MantissaBits + 12) :
            /\ q < Pow2(MantissaBits + k)
            /\ k = 0 \/ q >= Pow2(MantissaBits + k - 1))

\* the float nearest to n / d units, ties to the even significand
float_round(n, d) ==
    LET spacing == float_spacing(n \div d)
        m == n \div (d * spacing)
        twice_rest == 2 * (n - m * d * spacing)
    IN  IF twice_rest > d * spacing \/ (twice_rest = d * spacing /\ m % 2 = 1)
        THEN (m + 1) * spacing
        ELSE m * spacing

\* the float of the decimal literal n / d, and of the integer n
float_literal(n, d) == float_round(n * FloatUnit, d)

float_add(a, b) == float_round(a + b, 1)

float_mul(a, b) == float_round(a * b, FloatUnit)

float_div(a, b) == float_round(a * FloatUnit, b)

\* Settings.get_severity on floats, the thresholds being the floats of
\* 0.95, 0.85, 0.70 and 0.50
float_get_severity(similarity) ==
    IF similarity >= float_literal(similarity_critical, 1000) THEN "CRITICAL"
    ELSE IF similarity >= float_literal(similarity_high, 1000) THEN "HIGH"
    ELSE IF similarity >= float_literal(similarity_medium, 1000) THEN "MEDIUM"
    ELSE IF similarity >= float_literal(similarity_low, 1000) THEN "LOW"
    ELSE "SAFE"

RECURSIVE float_plagiarized_weighted(_, _, _)
\* _calculate_base_percentage, the loop: the sum over the chunks from the
\* i-th down to the first of word_count * max_similarity for the chunks at
\* or above similarity_low
float_plagiarized_weighted(word_counts, similarities, i) ==
    IF i = 0
    THEN 0
    ELSE LET before == float_plagiarized_weighted(word_counts, similarities,
                                                  i - 1)
         IN  IF similarities[i] >= float_literal(similarity_low, 1000)
             THEN float_add(before,
                            float_mul(float_literal(word_counts[i], 1),
                                      similarities[i]))
             ELSE before

\* PlagiarismDetector._calculate_base_percentage on floats:
\* (plagiarized_weighted / total_words) * 100
float_base_percentage(word_counts, similarities) ==
    IF word_counts = <<>> \/ SumSeq(word_counts) = 0
    THEN 0
    ELSE float_mul(float_div(float_plagiarized_weighted(word_counts,
                                 similarities, Len(word_counts)),
                             float_literal(SumSeq(word_counts), 1)),
                   float_literal(100, 1))

\* the floats from 0.5 to 1, and those of them within two floats of a
\* threshold of the severity scale
UnitFloats == {m * 4 : m \in Pow2(MantissaBits - 1)..Pow2(MantissaBits)}

NearThreshold ==
    {s \in UnitFloats :
        \E t \in {similarity_low, similarity_medium, similarity_high,
                  similarity_critical} :
           /\ s - float_literal(t, 1000) <= 8
           /\ float_literal(t, 1000) - s <= 8}

\* the max_similarity of a chunk: 0 for a chunk without a match
Similarities == {0} \cup NearThreshold

ScoredChunks ==
    UNION {[word_counts : [1..n -> 1..MaxWordCount],
            similarities : [1..n -> Similarities]] : n \in 1..MaxScoredChunks}

SeverityInit ==
    /\ CoreIdle
    /\ EarlyIdle
    /\ ServerIdle
    /\ UploadIdle
    /\ call_pc = "check"
    /\ call_args \in ScoredChunks
    /\ call_result = <<>>

\* check_plagiarism without the explainer, steps 3 and 4 and the severity:
\* the status of every chunk, the base percentage, and the severity of
\* base_percentage / 100
CheckSeverity ==
    /\ call_pc = "check"
    /\ LET base == float_base_percentage(call_args.word_counts,
                                         call_args.similarities)
       IN  call_result' =
               [status |-> [k \in 1..Len(call_args.similarities) |->
                               float_get_severity(call_args.similarities[k])],
                base_percentage |-> base,
                severity |-> float_get_severity(
                                float_div(base, float_literal(100, 1)))]
    /\ call_pc' = "checked"
    /\ UNCHANGED <<core_vars, early_vars, server_vars, upload_vars, call_args>>

SeverityNext == CheckSeverity

SeveritySpec == SeverityInit /\ [][SeverityNext]_vars

SeverityRank(label) ==
    CASE label = "SAFE" -> 0
      [] label = "LOW" -> 1
      [] label = "MEDIUM" -> 2
      [] label = "HIGH" -> 3
      [] label = "CRITICAL" -> 4

\* C29: without the explainer the overall severity of a check is never
\* higher than the highest status of its chunks, and it is SAFE whenever
\* every chunk's status is SAFE.
C29_SeverityAtMostHighestChunk ==
    call_pc = "checked" =>
        /\ \E k \in 1..Len(call_result.status) :
              SeverityRank(call_result.severity)
                  <= SeverityRank(call_result.status[k])
        /\ (\A k \in 1..Len(call_result.status) :
               call_result.status[k] = "SAFE")
              => call_result.severity = "SAFE"

====
